---------------------------- MODULE Spec2Model ----------------------------
(***************************************************************************)
(* Attendance bot: the conversation state machine (handlers.py), the admin *)
(* callback router (handlers.py, admin.py) and the attendance store        *)
(* (database.py), as a state machine.                                      *)
(*                                                                         *)
(* Handlers are coroutines on one event loop.  A handler is modelled as a  *)
(* task that runs in atomic steps; a step ends where the coroutine really  *)
(* suspends before its next access to shared state: at a call of the store *)
(* (aiosqlite) or of the chat platform.  Calls of the in-memory FSM        *)
(* storage do not suspend.  All tasks share one store connection, so a     *)
(* statement is visible to every task as soon as it is executed.           *)
(*                                                                         *)
(* Texts are named by ASCII identifiers; Chars gives the code points of    *)
(* the text an identifier stands for, and the string operations of the     *)
(* code are computed on the code points.                                   *)
(***************************************************************************)
EXTENDS Integers, Sequences, FiniteSets, TLC

(* ------------------------------ bounds -------------------------------- *)

\* New commands are accepted while the journal holds fewer events than this.
MaxEvents == 3

\* Store statements that may fail in one run (specification SpecFault).
MaxFaults == 1

\* The largest number of registered users (specification SpecPanel).
MaxListed == 20

\* The nested calls of get_commander_permissions that the interpreter allows
\* before it raises RecursionError (specification SpecRecur).
RecursionLimit == 3

(* --------------------------- values of the code ----------------------- *)

None == "None"
NoId == 0

IN_UNIT == "v_chasti"
AWAY == "vne_chasti"

\* Telegram ids of the people who talk to the bot.
Users == {1, 2}

\* Config.ADMIN_IDS as loaded at start.
InitialAdminIds == <<1>>

TaskIds == {1, 2}

\* The texts that are typed in the attendance flows.
\*   Da_pad   " Да "         Net      "нет"        Sklad  "Склад"
\*   Shtab123 " Штаб123"     Ivanov   "Иванов И.И."             KP     "КП"
Texts == {"Sklad", "Shtab123", "Ivanov", "KP"}

\* The texts that are typed in the dangerous-operation flow.
DangerTexts == {"Da_pad", "Net"}

Chars(t) ==
    CASE t = "Da_pad"   -> <<32, 1044, 1072, 32>>
      [] t = "Net"      -> <<1085, 1077, 1090>>
      [] t = "Sklad"    -> <<1057, 1082, 1083, 1072, 1076>>
      [] t = "Shtab123" -> <<32, 1064, 1090, 1072, 1073, 49, 50, 51>>
      [] t = "Ivanov"   -> <<1048, 1074, 1072, 1085, 1086, 1074, 32, 1048, 46, 1048, 46>>
      [] t = "da"       -> <<1076, 1072>>
      [] t = "KP"       -> <<1050, 1055>>
      [] OTHER          -> <<>>

IsSpace(c) == c \in {9, 10, 11, 12, 13, 32}

\* str.strip()
RECURSIVE LStrip(_)
LStrip(s) == IF s # <<>> /\ IsSpace(Head(s)) THEN LStrip(Tail(s)) ELSE s

RECURSIVE RStrip(_)
RStrip(s) ==
    IF s # <<>> /\ IsSpace(s[Len(s)]) THEN RStrip(SubSeq(s, 1, Len(s) - 1)) ELSE s

Strip(s) == RStrip(LStrip(s))

\* str.lower() on the Latin and Cyrillic capitals
LowerChar(c) ==
    IF c \in 65..90 \/ c \in 1040..1071 THEN c + 32
    ELSE IF c = 1025 THEN 1105 ELSE c

Lower(s) == [i \in 1..Len(s) |-> LowerChar(s[i])]

\* text.strip().lower() == 'да'
IsConfirmToken(text) == Lower(Strip(Chars(text))) = Chars("da")

\* re.match(r'^[А-Яа-яёЁ\s\-]+$', location)
IsLocationChar(c) == c \in 1040..1103 \/ c \in {1025, 1105, 45} \/ IsSpace(c)

\* A bug to compare with: the pattern accepts every text.
MatchesAnything(s) == TRUE

MatchesCyrillic(s) == Len(s) >= 1 /\ \A i \in 1..Len(s) : IsLocationChar(s[i])

MinLocationLen == 4

IsUpperCyrillic(c) == c \in 1040..1071 \/ c = 1025
IsLowerCyrillic(c) == c \in 1072..1103 \/ c = 1105

\* utils.validate_full_name: the text is not empty and, stripped, matches
\* r'^[А-ЯЁ][а-яё]+\s+[А-ЯЁ]\.[А-ЯЁ]\.$'
validate_full_name(full_name) ==
    /\ full_name # None
    /\ Chars(full_name) # <<>>
    /\ LET s == Strip(Chars(full_name))
           n == Len(s)
       IN /\ n >= 7
          /\ IsUpperCyrillic(s[1])
          /\ IsUpperCyrillic(s[n - 3]) /\ s[n - 2] = 46
          /\ IsUpperCyrillic(s[n - 1]) /\ s[n] = 46
          /\ \E k \in 2..(n - 5) :
                /\ \A i \in 2..k : IsLowerCyrillic(s[i])
                /\ \A i \in (k + 1)..(n - 4) : IsSpace(s[i])

\* The two checks of handle_custom_location_input.
LocationTextValid(text) ==
    /\ Len(Chars(text)) >= MinLocationLen
    /\ MatchesCyrillic(Chars(text))

\* Python truthiness of an optional string.
Truthy(v) == v # None /\ v # ""

\* location_map.get(action, "Неизвестная локация")
LocationKeys == {"location_polyclinic", "location_custom", "location_other"}

LocationMap(key) ==
    CASE key = "location_polyclinic" -> "Poliklinika"
      [] OTHER                       -> "Neizvestnaya_lokaciya"

\* action_names of the dangerous operations
DangerOps == {"clear_all_data", "reset_settings", "mark_all_arrived"}

ActionName(sub) ==
    CASE sub = "clear_all_data"   -> "Ochistka_vseh_dannyh"
      [] sub = "reset_settings"   -> "Sbros_nastroek"
      [] sub = "mark_all_arrived" -> "Otmetka_vseh_pribyvshimi"
      [] OTHER                    -> "Neizvestnaya_operaciya"

\* The names and places an admin passes to AdminPanel.add_user.
AddLocations == {None, "Sklad"}

\* The dangerous operations that are requested in the model.
RequestedOps == {"clear_all_data", "mark_all_arrived"}

\* Callback data, split at the colons.
AdminData ==
    {<<"admin", "danger_zone", op>> : op \in RequestedOps}
    \cup {<<"admin", "confirm_text", "yes">>, <<"admin", "confirm_text", "no">>,
          <<"admin", "journal_filter", "by_name">>,
          <<"admin", "journal_filter", "by_action">>, <<"admin", "dashboard">>}

UserData ==
    {<<"user", "location_polyclinic">>, <<"user", "location_custom">>}
    \cup {<<"user", "arrived">>, <<"user", "departed">>, <<"user", "cancel">>,
          <<"user", "my_status">>,
          <<"user", "initial_status_in_unit">>, <<"user", "initial_status_away">>}

OtherData == {<<"noop">>}

\* The buttons of the registration flow.
RegData ==
    {<<"user", "initial_status_in_unit">>, <<"user", "initial_status_away">>,
     <<"user", "location_custom">>, <<"user", "location_polyclinic">>}

\* The texts and buttons of the runs with two users talking at once.
TwoTexts == {"Sklad"}

TwoData ==
    {<<"user", "departed">>, <<"user", "location_custom">>,
     <<"admin", "journal_filter", "by_action">>}

\* The commands given to the router and to the panel in the runs of the
\* admin panel.
RouterData ==
    {<<"admin", "personnel", "list_users">>, <<"admin", "dashboard", "">>,
     <<"admin", "bogus", "">>, <<"admin", "journal_filter", "by_name">>}

UnknownData == OtherData \cup {<<"other", "dashboard">>}

UnknownUserData == {<<"user", "bogus">>}

PagingSubactions ==
    {"list_users_1", "list_users_2", "list_users_3", "list_users_99", "list_users_0",
     "list_users_-1", "list_users_info", "list_users_"}

PanelData ==
    {<<"dashboard">>, <<"dashboard", "">>, <<"personnel", "list_users">>,
     <<"personnel", "menu">>, <<"bogus">>}
    \cup {<<"personnel", sub>> : sub \in PagingSubactions}

\* The columns can_* of the table commander_permissions, with their defaults.
PermissionNames ==
    {"can_view_personnel", "can_manage_personnel", "can_export_data", "can_view_journal",
     "can_clear_journal", "can_manage_notifications", "can_view_stats",
     "can_force_operations"}

DefaultPermissions ==
    [p \in PermissionNames |->
        p \in {"can_view_personnel", "can_view_journal", "can_view_stats"}]

\* The dictionaries passed to update_commander_permissions; "can_fly" names
\* no column, "note" does not start with "can_".
PermissionInputs ==
    {<<>>,
     [can_export_data |-> TRUE],
     [can_view_stats |-> FALSE],
     [can_view_personnel |-> FALSE, can_clear_journal |-> TRUE],
     [can_export_data |-> TRUE, note |-> TRUE],
     [can_export_data |-> TRUE, can_fly |-> TRUE]}

\* permission.startswith('can_')
StartsWithCan(permission) == permission \in PermissionNames \cup {"can_fly"}

\* The locations passed to set_soldier_status when it is called directly.
StoreLocations == {None, "", "Sklad"}

\* The commands of the runs with two handlers in flight and of the runs
\* with failing statements.
StatusData == {<<"user", "arrived">>, <<"user", "location_polyclinic">>}

(* ------------------------------- state -------------------------------- *)

VARIABLES
    users,       \* table users: rows
    events,      \* table events, in insertion order
    attendance,  \* table attendance of today: ids of the rows marked
    permissions, \* table commander_permissions: rows
    admin_ids,   \* Config.ADMIN_IDS
    fsm,         \* FSM storage: per user the state tag and the data
    tasks,       \* the handlers in flight
    reply,       \* the last answer of the bot
    actor,       \* the user who talks to the bot in this run
    executed,    \* history: the dangerous operation started last
    flow,        \* history: per user, where the confirmation stands
    arrivals,    \* history: the latest arrival commands issued in a row
    faults       \* store statements that may still fail

vars == <<users, events, attendance, permissions, admin_ids, fsm, tasks, reply, actor,
          executed, flow, arrivals, faults>>

NoRow == [id |-> NoId, telegram_id |-> NoId, name |-> None, location |-> None,
          status |-> None, is_admin |-> FALSE]

EmptyData == [user_name |-> None, is_registration |-> FALSE,
              danger_action |-> None, text_confirmed |-> FALSE,
              filter_type |-> None]

\* state None, empty data: what state.finish() leaves
IdleFsm == [state |-> None, data |-> EmptyData]

IdleTask == [pc |-> "idle", user |-> NoId, kind |-> None, arg |-> None,
             row |-> NoRow, st |-> None, loc |-> None, todo |-> <<>>, count |-> 0,
             notice |-> None]

\* tok: the token was typed and no operation was started on it since;
\* fresh: the token was typed after the latest request;
\* cancelled: the cancel button of step 2 was pressed on a typed token.
\* typed_for: the danger_action of the payload when the token was typed.
NoFlow == [tok |-> FALSE, fresh |-> FALSE, cancelled |-> FALSE, typed_for |-> None]

NoExecution == [user |-> NoId, op |-> None, admin |-> FALSE, tok |-> FALSE,
                fresh |-> FALSE, cancelled |-> FALSE, typed_for |-> None,
                label |-> None]

NoCommand == [user |-> NoId, base |-> 0, away |-> FALSE, registered |-> FALSE]

NoArrivals == [prev |-> NoCommand, cur |-> NoCommand]

(* ------------------------------- store -------------------------------- *)

\* SELECT * FROM users WHERE telegram_id = ?
GetUser(tg) ==
    IF \E r \in users : r.telegram_id = tg
    THEN CHOOSE r \in users : r.telegram_id = tg
    ELSE NoRow

MaxRowId == IF users = {} THEN 0
            ELSE CHOOSE m \in {r.id : r \in users} : \A r \in users : r.id <= m

\* INSERT OR REPLACE INTO users (telegram_id, name, location, username):
\* a fresh rowid, the row of the same telegram_id removed, status by default.
NewRow(tg, name, location) ==
    [id |-> MaxRowId + 1, telegram_id |-> tg, name |-> name,
     location |-> location, status |-> IN_UNIT, is_admin |-> FALSE]

InsertOrReplaceUser(tg, name, location) ==
    {r \in users : r.telegram_id # tg} \cup {NewRow(tg, name, location)}

\* UPDATE users SET status = ?, location = ? WHERE telegram_id = ?
UpdateStatus(tg, status, location) ==
    {IF r.telegram_id = tg
     THEN [r EXCEPT !.status = status, !.location = location]
     ELSE r : r \in users}

\* DELETE FROM users WHERE telegram_id = ?
DeleteRow(tg) == {r \in users : r.telegram_id # tg}

Event(uid, action, details) == [user_id |-> uid, action |-> action, details |-> details]

\* A bug to compare with: clearing removes the rows of the journal.
LogEventAfterPurge(uid, action, details) ==
    IF action \in {"journal_cleared", "clear_all_data"}
    THEN <<Event(uid, action, details)>>
    ELSE Append(events, Event(uid, action, details))

\* log_event: INSERT INTO events (user_id, action, details)
LogEvent(uid, action, details) == Append(events, Event(uid, action, details))

\* f"Локация: {location}" if location else None
StatusDetails(location) == IF Truthy(location) THEN <<"Lokaciya", location>> ELSE <<>>

\* AdminPanel.is_admin: user_id in self.config.ADMIN_IDS
IsAdmin(u) == \E i \in 1..Len(admin_ids) : admin_ids[i] = u

\* Lexicographic order of two texts by code points.
RECURSIVE SeqLess(_, _)
SeqLess(a, b) ==
    IF b = <<>> THEN FALSE
    ELSE IF a = <<>> THEN TRUE
    ELSE IF Head(a) # Head(b) THEN Head(a) < Head(b)
    ELSE SeqLess(Tail(a), Tail(b))

RowBefore(r, q) ==
    \/ SeqLess(Chars(r.name), Chars(q.name))
    \/ Chars(r.name) = Chars(q.name) /\ r.id < q.id

\* SELECT * FROM users ORDER BY name: the telegram ids in that order.
RECURSIVE OrderByName(_)
OrderByName(rows) ==
    IF rows = {} THEN <<>>
    ELSE LET r == CHOOSE x \in rows : \A y \in rows \ {x} : RowBefore(x, y)
         IN <<r.telegram_id>> \o OrderByName(rows \ {r})

\* The outcomes of a store statement: it may fail while faults remain.
Outcomes == IF faults > 0 THEN {TRUE, FALSE} ELSE {TRUE}

Spend(ok) == faults' = IF ok THEN faults ELSE faults - 1

(* ------------------------------ helpers ------------------------------- *)

Idle(t) == tasks[t].pc = "idle"
At(t, pc) == tasks[t].pc = pc

AllIdle == \A t \in TaskIds : Idle(t)

\* Room in the journal for a command that writes.
Room == Len(events) < MaxEvents

Say(u, tag) == reply' = [user |-> u, tag |-> tag]
Done(t) == tasks' = [tasks EXCEPT ![t] = IdleTask]
Goto(t, pc) == tasks' = [tasks EXCEPT ![t].pc = pc]
Begin(t, u, pc, kind, arg) ==
    tasks' = [tasks EXCEPT ![t] =
                 [IdleTask EXCEPT !.pc = pc, !.user = u, !.kind = kind, !.arg = arg]]

\* A bug to compare with: only the state is reset, the data stay.
FinishKeepsData(u) ==
    /\ fsm' = [fsm EXCEPT ![u].state = None]
    /\ flow' = [flow EXCEPT ![u] = NoFlow]

\* A bug to compare with: the whole storage is reset.
FinishAllUsers(u) ==
    /\ fsm' = [x \in Users |-> IdleFsm]
    /\ flow' = [x \in Users |-> NoFlow]

\* state.finish(): the state and the data of the user are dropped.
Finish(u) ==
    /\ fsm' = [fsm EXCEPT ![u] = IdleFsm]
    /\ flow' = [flow EXCEPT ![u] = NoFlow]

\* A command other than an arrival ends the run of arrival commands.
OtherCommand == arrivals' = NoArrivals

ArrivalCommand(u) ==
    arrivals' = [prev |-> IF arrivals.cur.user = u THEN arrivals.cur ELSE NoCommand,
                 cur  |-> [user |-> u, base |-> Len(events),
                           away |-> GetUser(u).status = AWAY,
                           registered |-> GetUser(u) # NoRow]]

\* The answer of a handler whose set_soldier_status call succeeded or failed.
StatusOkReply(kind) ==
    CASE kind = "arrival"   -> "arrival_registered"
      [] kind = "set_status" -> "returned_true"
      [] kind = "departure" -> "departure_registered"
      [] OTHER              -> "registration_complete"

StatusFailReply(kind) ==
    CASE kind = "arrival"   -> "registration_error"
      [] kind = "set_status" -> "returned_false"
      [] kind = "departure" -> "registration_error"
      [] OTHER              -> "status_error"

(* --------------------- Database.set_soldier_status -------------------- *)

\* user = await self.get_user(telegram_id); if not user: return False
SsGetUser(t, u, kind, st, loc) ==
    LET user == GetUser(u) IN
    IF user = NoRow
    THEN /\ Say(u, StatusFailReply(kind))
         /\ Done(t)
    ELSE /\ tasks' = [tasks EXCEPT ![t] =
                         [IdleTask EXCEPT !.pc = "ss_update", !.user = u,
                                          !.kind = kind, !.st = st, !.loc = loc,
                                          !.row = user]]
         /\ UNCHANGED reply

ss_get_user(t) ==
    /\ At(t, "ss_get_user")
    /\ LET k == tasks[t] IN SsGetUser(t, k.user, k.kind, k.st, k.loc)
    /\ UNCHANGED <<users, events, attendance, permissions, admin_ids, actor, fsm, executed, flow,
                   arrivals, faults>>

\* UPDATE users SET status = ?, location = ? ...; commit.  When the statement
\* raises, the except clause returns False and the handler reports the error.
ss_update(t) ==
    /\ At(t, "ss_update")
    /\ \E ok \in Outcomes :
         LET k == tasks[t] IN
         /\ Spend(ok)
         /\ IF ok
            THEN /\ users' = UpdateStatus(k.user, k.st, k.loc)
                 /\ Goto(t, "ss_log")
                 /\ UNCHANGED reply
            ELSE /\ UNCHANGED users
                 /\ Say(k.user, StatusFailReply(k.kind))
                 /\ Done(t)
    /\ UNCHANGED <<events, attendance, permissions, admin_ids, actor, fsm, executed, flow, arrivals>>

\* log_event(user['id'], status, details), which swallows its failure;
\* return True; the handler answers.
ss_log(t) ==
    /\ At(t, "ss_log")
    /\ \E ok \in Outcomes :
         LET k == tasks[t] IN
         /\ Spend(ok)
         /\ events' = IF ok THEN LogEvent(k.row.id, k.st, StatusDetails(k.loc))
                      ELSE events
         /\ Say(k.user, StatusOkReply(k.kind))
         /\ IF k.kind \in {"arrival", "set_status"} THEN Done(t)
            ELSE Goto(t, "finish_state")
    /\ UNCHANGED <<users, attendance, permissions, admin_ids, actor, fsm, executed, flow, arrivals>>

\* notification_system.send_admin_notification after the status was written:
\* send_notification catches the failure of the send and returns False.
send_admin_notification(t) ==
    /\ At(t, "finish_state")
    /\ tasks[t].notice = None
    /\ \E notice \in {"sent", "failed"} : tasks' = [tasks EXCEPT ![t].notice = notice]
    /\ UNCHANGED <<users, events, attendance, permissions, admin_ids, actor, fsm, reply,
                   executed, flow, arrivals, faults>>

\* A bug to compare with: the failure of the send reaches the handler, whose
\* except clause answers and skips state.finish().
FinishUnlessNoticeFailed(t) ==
    /\ At(t, "finish_state")
    /\ IF tasks[t].notice = "failed"
       THEN UNCHANGED <<fsm, flow>>
       ELSE Finish(tasks[t].user)
    /\ Done(t)
    /\ UNCHANGED <<users, events, attendance, permissions, admin_ids, actor, reply, executed,
                   arrivals, faults>>

\* await state.finish() at the end of a flow
finish_state(t) ==
    /\ At(t, "finish_state")
    /\ Finish(tasks[t].user)
    /\ Done(t)
    /\ UNCHANGED <<users, events, attendance, permissions, admin_ids, actor, reply, executed,
                   arrivals, faults>>

\* A call of set_soldier_status by a caller other than the handlers, up to
\* the get_user of its first line.
Database_set_soldier_status(t, telegram_id, status, location) ==
    /\ Idle(t)
    /\ Room
    /\ SsGetUser(t, telegram_id, "set_status", status, location)
    /\ OtherCommand
    /\ UNCHANGED <<users, events, attendance, permissions, admin_ids, actor, fsm, executed, flow,
                   faults>>

(* ------------------------- Database.add_user -------------------------- *)

\* INSERT OR REPLACE INTO users; cursor.lastrowid is kept for the event.
\* When the statement raises, add_user returns False.
DbAddUser(t, u, kind, name, loc, ok) ==
    IF ok
    THEN /\ users' = InsertOrReplaceUser(u, name, loc)
         /\ tasks' = [tasks EXCEPT ![t] =
                         [IdleTask EXCEPT !.pc = "add_user_log", !.user = u,
                                          !.kind = kind, !.arg = name, !.loc = loc,
                                          !.row = NewRow(u, name, loc)]]
         /\ UNCHANGED reply
    ELSE /\ UNCHANGED <<users, tasks>>
         /\ IF kind = "name_input" THEN Say(u, "registration_error")
            ELSE UNCHANGED reply

\* log_event(user_id, "user_added", ...); return True; the caller goes on.
add_user_log(t) ==
    /\ At(t, "add_user_log")
    /\ \E ok \in Outcomes :
         LET k == tasks[t] IN
         /\ Spend(ok)
         /\ events' = IF ok
                      THEN LogEvent(k.row.id, "user_added", <<"Dobavlen_polzovatel", k.arg>>)
                      ELSE events
         /\ IF k.kind = "name_input" THEN Goto(t, "name_update_data") ELSE Done(t)
    /\ UNCHANGED <<users, attendance, permissions, admin_ids, actor, fsm, reply, executed, flow, arrivals>>

(* --------------------------- start_command ---------------------------- *)

start_command(t, u) ==
    /\ Idle(t)
    /\ IF GetUser(u) # NoRow
       THEN /\ Say(u, IF IsAdmin(u) THEN "commander_menu" ELSE "soldier_menu")
            /\ UNCHANGED tasks
       ELSE /\ Say(u, "ask_name")
            /\ Begin(t, u, "start_set_state", "start", None)
    /\ OtherCommand
    /\ UNCHANGED <<users, events, attendance, permissions, admin_ids, actor, fsm, executed, flow, faults>>

\* UserStates.waiting_for_name.set()
start_set_state(t) ==
    /\ At(t, "start_set_state")
    /\ fsm' = [fsm EXCEPT ![tasks[t].user].state = "waiting_for_name"]
    /\ Done(t)
    /\ UNCHANGED <<users, events, attendance, permissions, admin_ids, actor, reply, executed, flow,
                   arrivals, faults>>

(* ------------------------- handle_text_message ------------------------ *)

\* The dispatch on the state; handle_name_input issues its INSERT at once,
\* the other three first delete the message.
handle_text_message(t, u, text) ==
    /\ Idle(t)
    /\ LET s == fsm[u].state IN
       IF s = "waiting_for_name"
       THEN /\ Room
            /\ \E ok \in Outcomes :
                 /\ Spend(ok)
                 /\ DbAddUser(t, u, "name_input", text, None, ok)
       ELSE /\ UNCHANGED <<users, reply, faults>>
            /\ CASE s = "waiting_for_custom_location" ->
                      /\ LocationTextValid(text) => Room
                      /\ Begin(t, u, "custom_location", "custom_location", text)
                 [] s = "waiting_for_danger_confirmation" ->
                      Begin(t, u, "danger_text", "danger_text", text)
                 [] s = "waiting_for_filter_input" ->
                      Begin(t, u, "filter_input", "filter", text)
                 [] OTHER -> UNCHANGED tasks
    /\ OtherCommand
    /\ UNCHANGED <<events, attendance, permissions, admin_ids, actor, fsm, executed, flow>>

\* handle_name_input: state.update_data(user_name=name), then the prompt
name_update_data(t) ==
    /\ At(t, "name_update_data")
    /\ LET k == tasks[t] IN
       /\ fsm' = [fsm EXCEPT ![k.user].data.user_name = k.arg]
       /\ Say(k.user, "choose_initial_status")
    /\ Goto(t, "name_set_state")
    /\ UNCHANGED <<users, events, attendance, permissions, admin_ids, actor, executed, flow, arrivals,
                   faults>>

\* handle_name_input: UserStates.waiting_for_initial_status.set()
name_set_state(t) ==
    /\ At(t, "name_set_state")
    /\ fsm' = [fsm EXCEPT ![tasks[t].user].state = "waiting_for_initial_status"]
    /\ Done(t)
    /\ UNCHANGED <<users, events, attendance, permissions, admin_ids, actor, reply, executed, flow,
                   arrivals, faults>>

\* handle_custom_location_input once the message is deleted: the two checks,
\* then the registration or the departure branch up to its first store call.
handle_custom_location_input(t) ==
    /\ At(t, "custom_location")
    /\ LET k == tasks[t]
           u == k.user
           data == fsm[u].data IN
       IF Len(Chars(k.arg)) < MinLocationLen
       THEN Say(u, "location_too_short") /\ Done(t)
       ELSE IF ~MatchesCyrillic(Chars(k.arg))
       THEN Say(u, "location_not_cyrillic") /\ Done(t)
       ELSE IF data.is_registration
       THEN IF ~Truthy(data.user_name)
            THEN Say(u, "name_not_found") /\ Done(t)
            ELSE SsGetUser(t, u, "registration", AWAY, k.arg)
       ELSE IF GetUser(u) = NoRow
            THEN Say(u, "not_registered") /\ Done(t)
            ELSE /\ tasks' = [tasks EXCEPT ![t] =
                                 [IdleTask EXCEPT !.pc = "ss_get_user", !.user = u,
                                                  !.kind = "departure", !.st = AWAY,
                                                  !.loc = k.arg]]
                 /\ UNCHANGED reply
    /\ UNCHANGED <<users, events, attendance, permissions, admin_ids, actor, fsm, executed, flow,
                   arrivals, faults>>

\* A bug to compare with: a text other than the token leaves the state alone.
DangerInputKeep(entry, text) ==
    IF IsConfirmToken(text)
    THEN [entry EXCEPT !.data.text_confirmed = TRUE]
    ELSE entry

\* What handle_danger_confirmation_input leaves in the FSM storage of the user.
DangerInput(entry, text) ==
    IF IsConfirmToken(text)
    THEN [entry EXCEPT !.data.text_confirmed = TRUE]
    ELSE IdleFsm

\* handle_danger_confirmation_input once the message is deleted and answered
handle_danger_confirmation_input(t) ==
    /\ At(t, "danger_text")
    /\ LET k == tasks[t]
           u == k.user IN
       /\ fsm' = [fsm EXCEPT ![u] = DangerInput(fsm[u], k.arg)]
       /\ IF IsConfirmToken(k.arg)
          THEN /\ flow' = [flow EXCEPT ![u] = [tok |-> TRUE, fresh |-> TRUE,
                                               cancelled |-> FALSE,
                                               typed_for |-> fsm[u].data.danger_action]]
               /\ Say(u, "confirm_prompt")
          ELSE /\ flow' = [flow EXCEPT ![u] = NoFlow]
               /\ Say(u, "operation_cancelled")
    /\ Done(t)
    /\ UNCHANGED <<users, events, attendance, permissions, admin_ids, actor, executed, arrivals, faults>>

\* handle_filter_input once the message is deleted: only the by_action
\* branch ends with state.finish()
handle_filter_input(t) ==
    /\ At(t, "filter_input")
    /\ LET k == tasks[t]
           filter_type == fsm[k.user].data.filter_type IN
       CASE filter_type = "by_name"   -> Say(k.user, "journal_by_name") /\ Done(t)
         [] filter_type = "by_action" -> Say(k.user, "journal_by_action")
                                         /\ Goto(t, "finish_state")
         [] OTHER                     -> UNCHANGED reply /\ Done(t)
    /\ UNCHANGED <<users, events, attendance, permissions, admin_ids, actor, fsm, executed, flow,
                   arrivals, faults>>

(* ------------------------ handle_callback_query ----------------------- *)

\* data.startswith("admin:"), data.startswith("user:")
StartsWith(data, prefix) == Len(data) >= 2 /\ data[1] = prefix

\* A bug to compare with: an unknown command ends the conversation.
UnknownCallbackResets(t, u, data) ==
    /\ Idle(t)
    /\ ~StartsWith(data, "admin")
    /\ ~StartsWith(data, "user")
    /\ Say(u, "unknown_callback")
    /\ fsm' = [fsm EXCEPT ![u] = IdleFsm]
    /\ OtherCommand
    /\ UNCHANGED <<users, events, attendance, permissions, admin_ids, actor, tasks, executed, flow,
                   faults>>

handle_callback_query(t, u, data) ==
    /\ Idle(t)
    /\ ~StartsWith(data, "admin")
    /\ ~StartsWith(data, "user")
    /\ Say(u, "unknown_callback")
    /\ OtherCommand
    /\ UNCHANGED <<users, events, attendance, permissions, admin_ids, actor, fsm, tasks, executed, flow,
                   faults>>

(* ------------------------ handle_admin_callback ----------------------- *)

\* parts = data.split(":")
AdminAction(parts) == IF Len(parts) > 1 THEN parts[2] ELSE ""
AdminSubaction(parts) == IF Len(parts) >= 3 THEN parts[3] ELSE ""

\* f"{action}:{subaction}" in dangerous_actions
IsDangerous(action, subaction) == action = "danger_zone" /\ subaction \in DangerOps

\* A bug to compare with: the button alone is enough.
ConfirmAllowedAnyPress(subaction, data) == subaction = "yes"

\* subaction == "yes" and state_data.get('text_confirmed')
ConfirmAllowed(subaction, data) == subaction = "yes" /\ data.text_confirmed

\* The operation that the substring tests on danger_action select; the three
\* labels are not substrings of one another.
SelectedOp(label) ==
    CASE label = ActionName("clear_all_data")   -> "clear_all_data"
      [] label = ActionName("reset_settings")   -> "reset_settings"
      [] label = ActionName("mark_all_arrived") -> "mark_all_arrived"
      [] OTHER                                  -> "unknown"

\* seq[start:end] of Python: a negative index counts from the end, and both
\* indexes are clamped to the sequence.
PyIndex(i, n) ==
    IF i < 0 THEN (IF n + i < 0 THEN 0 ELSE n + i)
    ELSE IF i > n THEN n ELSE i

PySlice(seq, start, end) ==
    LET a == PyIndex(start, Len(seq))
        b == PyIndex(end, Len(seq))
    IN IF a >= b THEN <<>> ELSE SubSeq(seq, a + 1, b)

DigitValue ==
    ("0" :> 0) @@ ("1" :> 1) @@ ("2" :> 2) @@ ("3" :> 3) @@ ("4" :> 4) @@
    ("5" :> 5) @@ ("6" :> 6) @@ ("7" :> 7) @@ ("8" :> 8) @@ ("9" :> 9)

IsDecimal(cs) == cs # <<>> /\ \A i \in 1..Len(cs) : cs[i] \in DOMAIN DigitValue

RECURSIVE DecimalValue(_)
DecimalValue(cs) ==
    IF cs = <<>> THEN 0
    ELSE 10 * DecimalValue(SubSeq(cs, 1, Len(cs) - 1)) + DigitValue[cs[Len(cs)]]

\* int(text) raises ValueError unless text is an optional sign and digits.
IntParses(cs) ==
    IF cs # <<>> /\ Head(cs) \in {"-", "+"} THEN IsDecimal(Tail(cs)) ELSE IsDecimal(cs)

IntValue(cs) ==
    IF Head(cs) = "-" THEN 0 - DecimalValue(Tail(cs))
    ELSE IF Head(cs) = "+" THEN DecimalValue(Tail(cs))
    ELSE DecimalValue(cs)

\* The subactions that start with "list_users_", with the characters of
\* subaction.split("_")[-1].
ListUsersSuffix ==
    ("list_users_1" :> <<"1">>) @@ ("list_users_2" :> <<"2">>) @@
    ("list_users_3" :> <<"3">>) @@ ("list_users_99" :> <<"9", "9">>) @@
    ("list_users_0" :> <<"0">>) @@ ("list_users_-1" :> <<"-", "1">>) @@
    ("list_users_info" :> <<"i", "n", "f", "o">>) @@ ("list_users_" :> <<>>)

\* get_users_list(page, per_page = 8)
PerPage == 8

\* db.get_all_users returns [] when the statement raises.
get_all_users(ok) == IF ok THEN OrderByName(users) ELSE <<>>

\* [user for user in all_users if not user.get('is_admin', False)]
Soldiers(ok) == SelectSeq(get_all_users(ok), LAMBDA tg : ~GetUser(tg).is_admin)

\* A bug to compare with: the last, partly filled page is not counted.
TotalPagesRoundedDown(total_users) ==
    IF total_users > PerPage THEN total_users \div PerPage ELSE 1

TotalPages(total_users) ==
    IF total_users > 0 THEN (total_users + PerPage - 1) \div PerPage ELSE 1

get_users_list(page, ok) ==
    LET soldiers == Soldiers(ok)
        start_idx == (page - 1) * PerPage
        end_idx == start_idx + PerPage
    IN [users_on_page |-> PySlice(soldiers, start_idx, end_idx),
        page |-> page,
        total_pages |-> TotalPages(Len(soldiers))]

\* format_users_list and get_users_pagination_keyboard: the page shown
UsersListReply(u, listing) ==
    [user |-> u,
     tag |-> IF listing.users_on_page = <<>> THEN "users_list_empty" ELSE "users_list",
     users_on_page |-> listing.users_on_page,
     page |-> listing.page,
     total_pages |-> listing.total_pages]

\* AdminPanel.handle_callback: callback_data.split(":", 1), the access check,
\* then the action table; the router passes data that starts with "admin:".
\* The subaction is kept as the segments after the first colon.
PanelAction(data) == data[1]
PanelSubaction(data) == Tail(data)

\* The keyboard sent with an answer of the panel or of the router; the
\* router's own error answer is a notice without a keyboard.
ReplyKeyboard(tag) ==
    CASE tag \in {"no_access", "panel_unknown_action", "panel_error"} -> "back"
      [] tag \in {"users_list", "users_list_empty"} -> "pagination"
      [] tag = "dashboard" -> "admin"
      [] tag = "personnel_menu" -> "personnel"
      [] OTHER -> None

\* A bug to compare with: the store is read before the caller is checked.
PanelReadsAnyCaller(data, u) ==
    \/ PanelAction(data) = "dashboard"
    \/ /\ PanelAction(data) = "personnel"
       /\ Len(PanelSubaction(data)) = 1
       /\ PanelSubaction(data)[1] \in {"list_users"} \cup DOMAIN ListUsersSuffix

\* The branches of the table that read the store.
PanelReads(data, u) ==
    /\ IsAdmin(u)
    /\ \/ PanelAction(data) = "dashboard"
       \/ /\ PanelAction(data) = "personnel"
          /\ Len(PanelSubaction(data)) = 1
          /\ PanelSubaction(data)[1] \in {"list_users"} \cup DOMAIN ListUsersSuffix

AdminPanel_handle_callback(data, u, ok) ==
    LET action == PanelAction(data)
        subaction == PanelSubaction(data) IN
    IF ~IsAdmin(u) THEN [user |-> u, tag |-> "no_access"]
    ELSE IF action = "dashboard"
    THEN \* the counting statements return 0 when they raise
         [user |-> u, tag |-> "dashboard",
          total_users |-> IF ok THEN Cardinality(users) ELSE 0]
    ELSE IF action = "personnel"
    THEN IF subaction = <<"list_users">>
         THEN UsersListReply(u, get_users_list(1, ok))
         ELSE IF Len(subaction) = 1 /\ subaction[1] \in DOMAIN ListUsersSuffix
         THEN LET suffix == ListUsersSuffix[subaction[1]] IN
              IF IntParses(suffix)
              THEN UsersListReply(u, get_users_list(IntValue(suffix), ok))
              ELSE UsersListReply(u, get_users_list(1, ok))
         ELSE [user |-> u, tag |-> "personnel_menu"]
    ELSE [user |-> u, tag |-> "panel_unknown_action"]

Execution(u, op, label) ==
    [user |-> u, op |-> op, admin |-> IsAdmin(u), tok |-> flow[u].tok,
     fresh |-> flow[u].fresh, cancelled |-> flow[u].cancelled,
     typed_for |-> flow[u].typed_for, label |-> label]

\* The branch of confirm_text that executes the confirmed operation, up to
\* the first store statement of the operation.
ConfirmExecute(t, u, label) ==
    LET op == SelectedOp(label) IN
    /\ Room
    /\ UNCHANGED <<users, attendance, permissions, admin_ids, actor, fsm>>
    /\ IF label = None
       THEN \* "..." in None raises TypeError; the except clause answers
            /\ Say(u, "error")
            /\ UNCHANGED <<events, tasks, executed, flow, faults>>
       ELSE IF op = "unknown"
       THEN /\ Say(u, "unknown_operation")
            /\ Begin(t, u, "finish_state", "confirm", op)
            /\ UNCHANGED <<events, executed, flow, faults>>
       ELSE /\ executed' = Execution(u, op, label)
            /\ flow' = [flow EXCEPT ![u].tok = FALSE]
            /\ IF op = "mark_all_arrived"
               THEN \* users = await self.db.get_all_users()
                    /\ tasks' = [tasks EXCEPT ![t] =
                                    [IdleTask EXCEPT
                                        !.pc = IF users = {} THEN "mark_all_log"
                                               ELSE "mark_get_user",
                                        !.user = u, !.kind = "confirm", !.arg = op,
                                        !.todo = OrderByName(users)]]
                    /\ UNCHANGED <<events, reply, faults>>
               ELSE \* clear_all_data, reset_settings: only log_event
                    /\ \E ok \in Outcomes :
                         /\ Spend(ok)
                         /\ events' = IF ok THEN LogEvent(NoId, op, <<op>>) ELSE events
                    /\ Say(u, op)
                    /\ Begin(t, u, "finish_state", "confirm", op)

handle_admin_callback(t, u, data) ==
    /\ Idle(t)
    /\ StartsWith(data, "admin")
    /\ OtherCommand
    /\ LET action == AdminAction(data)
           subaction == AdminSubaction(data) IN
       IF action = "journal_filter" /\ subaction \in {"by_name", "by_action"}
       THEN /\ fsm' = [fsm EXCEPT ![u].state = "waiting_for_filter_input",
                                  ![u].data.filter_type = subaction]
            /\ Say(u, "ask_filter")
            /\ UNCHANGED <<users, events, attendance, permissions, admin_ids, actor, tasks, executed,
                           flow, faults>>
       ELSE IF IsDangerous(action, subaction)
       THEN /\ fsm' = [fsm EXCEPT ![u].state = "waiting_for_danger_confirmation",
                                  ![u].data.danger_action = ActionName(subaction)]
            /\ flow' = [flow EXCEPT ![u].fresh = FALSE, ![u].cancelled = FALSE]
            /\ Say(u, "danger_prompt")
            /\ UNCHANGED <<users, events, attendance, permissions, admin_ids, actor, tasks, executed,
                           faults>>
       ELSE IF action = "confirm_text"
       THEN IF ConfirmAllowed(subaction, fsm[u].data)
            THEN ConfirmExecute(t, u, fsm[u].data.danger_action)
            ELSE \* get_admin_keyboard is a local name bound only by the import
                 \* of the other branch: UnboundLocalError before state.finish()
                 /\ Say(u, "error")
                 /\ flow' = [flow EXCEPT ![u].cancelled =
                                @ \/ (subaction = "no" /\ fsm[u].data.text_confirmed)]
                 /\ UNCHANGED <<users, events, attendance, permissions, admin_ids, actor, fsm, tasks,
                                executed, faults>>
       ELSE \* the panel is given the whole data: its action is "admin"
            /\ reply' = AdminPanel_handle_callback(data, u, TRUE)
            /\ UNCHANGED <<users, events, attendance, permissions, admin_ids, actor, fsm, tasks,
                           executed, flow, faults>>

\* A call of AdminPanel.handle_callback; the listing and the dashboard read
\* the store, and the read may fail.
AdminPanel_call(u, data) ==
    /\ AllIdle
    /\ IF PanelReads(data, u)
       THEN \E ok \in Outcomes :
              /\ Spend(ok)
              /\ reply' = AdminPanel_handle_callback(data, u, ok)
       ELSE /\ reply' = AdminPanel_handle_callback(data, u, TRUE)
            /\ UNCHANGED faults
    /\ OtherCommand
    /\ UNCHANGED <<users, events, attendance, permissions, admin_ids, actor, fsm, tasks, executed, flow>>

(* ----------------------- AdminPanel.mark_all_arrived ------------------ *)

\* mark_attendance: user = await self.get_user(telegram_id)
mark_get_user(t) ==
    /\ At(t, "mark_get_user")
    /\ LET k == tasks[t]
           user == GetUser(Head(k.todo)) IN
       IF user = NoRow
       THEN tasks' = [tasks EXCEPT ![t].todo = Tail(k.todo),
                                   ![t].pc = IF Tail(k.todo) = <<>>
                                             THEN "mark_all_log" ELSE "mark_get_user"]
       ELSE tasks' = [tasks EXCEPT ![t].row = user, ![t].pc = "mark_insert"]
    /\ UNCHANGED <<users, events, attendance, permissions, admin_ids, actor, fsm, reply, executed, flow,
                   arrivals, faults>>

\* mark_attendance: INSERT OR REPLACE INTO attendance (user_id, date, location)
mark_insert(t) ==
    /\ At(t, "mark_insert")
    /\ \E ok \in Outcomes :
         LET k == tasks[t] IN
         /\ Spend(ok)
         /\ IF ok
            THEN /\ attendance' = attendance \cup {k.row.id}
                 /\ Goto(t, "mark_log")
            ELSE /\ UNCHANGED attendance
                 /\ tasks' = [tasks EXCEPT ![t].todo = Tail(k.todo),
                                           ![t].pc = IF Tail(k.todo) = <<>>
                                                     THEN "mark_all_log"
                                                     ELSE "mark_get_user"]
    /\ UNCHANGED <<users, events, permissions, admin_ids, actor, fsm, reply, executed, flow,
                   arrivals>>

\* mark_attendance: log_event(user['id'], "attendance_marked", ...); count += 1
mark_log(t) ==
    /\ At(t, "mark_log")
    /\ \E ok \in Outcomes :
         LET k == tasks[t] IN
         /\ Spend(ok)
         /\ events' = IF ok
                      THEN LogEvent(k.row.id, "attendance_marked", <<"Otmetka">>)
                      ELSE events
         /\ tasks' = [tasks EXCEPT ![t].todo = Tail(k.todo),
                                   ![t].count = k.count + 1,
                                   ![t].pc = IF Tail(k.todo) = <<>>
                                             THEN "mark_all_log" ELSE "mark_get_user"]
    /\ UNCHANGED <<users, attendance, permissions, admin_ids, actor, fsm, reply, executed, flow, arrivals>>

\* log_event(None, "mark_all_arrived", ...); the handler shows the count
mark_all_log(t) ==
    /\ At(t, "mark_all_log")
    /\ \E ok \in Outcomes :
         /\ Spend(ok)
         /\ events' = IF ok
                      THEN LogEvent(NoId, "mark_all_arrived", <<"mark_all_arrived">>)
                      ELSE events
    /\ Say(tasks[t].user, "mark_all_arrived")
    /\ Goto(t, "finish_state")
    /\ UNCHANGED <<users, attendance, permissions, admin_ids, actor, fsm, executed, flow, arrivals>>

\* A call of AdminPanel.mark_all_arrived: users = await self.db.get_all_users()
AdminPanel_mark_all_arrived(t, u) ==
    /\ AllIdle
    /\ Room
    /\ tasks' = [tasks EXCEPT ![t] =
                    [IdleTask EXCEPT !.pc = IF users = {} THEN "mark_all_log"
                                           ELSE "mark_get_user",
                                     !.user = u, !.kind = "confirm",
                                     !.arg = "mark_all_arrived",
                                     !.todo = OrderByName(users)]]
    /\ OtherCommand
    /\ UNCHANGED <<users, events, attendance, permissions, admin_ids, actor, fsm, reply,
                   executed, flow, faults>>

\* clear_events, clear_all_data, reset_settings, perform_maintenance: each
\* only calls log_event(None, action, ...), which swallows its exception.
AdminPanel_log_operation(u, action) ==
    /\ AllIdle
    /\ Room
    /\ \E ok \in Outcomes :
         /\ Spend(ok)
         /\ events' = IF ok THEN LogEvent(NoId, action, <<action>>) ELSE events
    /\ Say(u, action)
    /\ OtherCommand
    /\ UNCHANGED <<users, attendance, permissions, admin_ids, actor, fsm, tasks, executed, flow>>

(* ------------------------ handle_user_callback ------------------------ *)

\* A bug to compare with: the arrival handler does not look at the status.
AlreadyInUnitNever(status) == FALSE

\* status.get('status') == 'в_части'
AlreadyInUnit(status) == status.status = IN_UNIT

\* status.get('status') == 'вне_части'
AlreadyAway(status) == status.status = AWAY

\* A bug to compare with: a user in the middle of a flow is told to finish it.
ArrivalOnlyFromIdle(t, u) ==
    LET status == GetUser(u) IN
    /\ UNCHANGED fsm
    /\ IF status = NoRow
       THEN Say(u, "not_registered") /\ UNCHANGED tasks
       ELSE IF AlreadyInUnit(status) \/ fsm[u].state # None
       THEN Say(u, "already_in_unit") /\ UNCHANGED tasks
       ELSE /\ Room
            /\ tasks' = [tasks EXCEPT ![t] =
                            [IdleTask EXCEPT !.pc = "ss_get_user", !.user = u,
                                             !.kind = "arrival", !.st = IN_UNIT,
                                             !.loc = None]]
            /\ UNCHANGED reply

handle_arrival_callback(t, u) ==
    LET status == GetUser(u) IN
    /\ UNCHANGED fsm
    /\ IF status = NoRow
       THEN Say(u, "not_registered") /\ UNCHANGED tasks
       ELSE IF AlreadyInUnit(status)
       THEN Say(u, "already_in_unit") /\ UNCHANGED tasks
       ELSE /\ Room
            /\ tasks' = [tasks EXCEPT ![t] =
                            [IdleTask EXCEPT !.pc = "ss_get_user", !.user = u,
                                             !.kind = "arrival", !.st = IN_UNIT,
                                             !.loc = None]]
            /\ UNCHANGED reply

\* The answer of handle_my_status_callback for the record it reads.
MyStatusReply(status) ==
    IF status = NoRow THEN "not_registered"
    ELSE IF status.status = IN_UNIT THEN "my_status_in_unit"
    ELSE "my_status_away"

\* handle_my_status_callback: the status is read and shown
handle_my_status_callback(t, u) ==
    /\ Say(u, MyStatusReply(GetUser(u)))
    /\ UNCHANGED <<fsm, tasks>>

handle_departure_callback(t, u) ==
    LET status == GetUser(u) IN
    /\ UNCHANGED fsm
    /\ IF status = NoRow
       THEN Say(u, "not_registered") /\ UNCHANGED tasks
       ELSE IF AlreadyAway(status)
       THEN Say(u, "already_away") /\ UNCHANGED tasks
       ELSE /\ Say(u, "choose_location")
            /\ Begin(t, u, "departure_set_state", "departure", None)

\* handle_departure_callback: UserStates.waiting_for_location.set()
departure_set_state(t) ==
    /\ At(t, "departure_set_state")
    /\ fsm' = [fsm EXCEPT ![tasks[t].user].state = "waiting_for_location"]
    /\ Done(t)
    /\ UNCHANGED <<users, events, attendance, permissions, admin_ids, actor, reply, executed, flow,
                   arrivals, faults>>

handle_initial_location_callback(t, u, action) ==
    /\ UNCHANGED fsm
    /\ IF ~Truthy(fsm[u].data.user_name)
       THEN Say(u, "name_not_found") /\ UNCHANGED tasks
       ELSE IF action = "location_custom"
       THEN /\ Say(u, "ask_custom_location")
            /\ Begin(t, u, "custom_set_state", "registration", None)
       ELSE /\ Room
            /\ SsGetUser(t, u, "registration", AWAY, LocationMap(action))

handle_location_callback(t, u, action) ==
    IF fsm[u].state = "waiting_for_initial_status"
    THEN handle_initial_location_callback(t, u, action)
    ELSE /\ UNCHANGED fsm
         /\ IF GetUser(u) = NoRow
            THEN Say(u, "not_registered") /\ UNCHANGED tasks
            ELSE IF action = "location_custom"
            THEN /\ Say(u, "ask_custom_location")
                 /\ Begin(t, u, "custom_set_state", "departure", None)
            ELSE /\ Room
                 /\ tasks' = [tasks EXCEPT ![t] =
                                 [IdleTask EXCEPT !.pc = "ss_get_user", !.user = u,
                                                  !.kind = "departure", !.st = AWAY,
                                                  !.loc = LocationMap(action)]]
                 /\ UNCHANGED reply

\* UserStates.waiting_for_custom_location.set(); at registration also
\* state.update_data(is_registration=True)
custom_set_state(t) ==
    /\ At(t, "custom_set_state")
    /\ LET k == tasks[t] IN
       fsm' = [fsm EXCEPT ![k.user].state = "waiting_for_custom_location",
                          ![k.user].data.is_registration =
                              IF k.kind = "registration" THEN TRUE ELSE @]
    /\ Done(t)
    /\ UNCHANGED <<users, events, attendance, permissions, admin_ids, actor, reply, executed, flow,
                   arrivals, faults>>

\* A bug to compare with: the handler does not look for the pending name.
InitialStatusWithoutName(t, u, status) ==
    /\ UNCHANGED fsm
    /\ IF status = AWAY
       THEN Say(u, "choose_location") /\ UNCHANGED tasks
       ELSE /\ Room
            /\ SsGetUser(t, u, "registration", status, None)

handle_initial_status_callback(t, u, status) ==
    /\ UNCHANGED fsm
    /\ IF ~Truthy(fsm[u].data.user_name)
       THEN Say(u, "name_not_found") /\ UNCHANGED tasks
       ELSE IF status = AWAY
       THEN Say(u, "choose_location") /\ UNCHANGED tasks
       ELSE /\ Room
            /\ SsGetUser(t, u, "registration", status, None)

\* action = parts[1] if len(parts) > 1 else ""
UserAction(parts) == IF Len(parts) > 1 THEN parts[2] ELSE ""

IsLocationAction(action) == action \in LocationKeys

handle_user_callback(t, u, data) ==
    /\ Idle(t)
    /\ StartsWith(data, "user")
    /\ LET action == UserAction(data) IN
       /\ IF action = "arrived" THEN ArrivalCommand(u) ELSE OtherCommand
       /\ CASE action = "arrived"  -> handle_arrival_callback(t, u)
            [] action = "departed" -> handle_departure_callback(t, u)
            [] action = "my_status" -> handle_my_status_callback(t, u)
            [] IsLocationAction(action) -> handle_location_callback(t, u, action)
            [] action = "initial_status_in_unit" ->
                 handle_initial_status_callback(t, u, IN_UNIT)
            [] action = "initial_status_away" ->
                 handle_initial_status_callback(t, u, AWAY)
            [] action = "cancel" ->
                 \* only the text of the message is edited
                 Say(u, "cancelled") /\ UNCHANGED <<fsm, tasks>>
            [] OTHER -> Say(u, "unknown_action") /\ UNCHANGED <<fsm, tasks>>
    /\ UNCHANGED <<users, events, attendance, permissions, admin_ids, actor, executed, flow, faults>>

(* ------------------------ commander permissions ----------------------- *)

\* No row: the methods return None.
NoPermissions == [id |-> NoId, user_id |-> NoId, flags |-> DefaultPermissions]

\* SELECT * FROM commander_permissions WHERE user_id = ?
GetPermissions(user_id) ==
    IF \E r \in permissions : r.user_id = user_id
    THEN CHOOSE r \in permissions : r.user_id = user_id
    ELSE NoPermissions

\* create_default_commander_permissions:
\* INSERT OR IGNORE INTO commander_permissions (user_id); user_id is UNIQUE.
\* No row of the table is ever deleted, so the next id is the count plus 1.
create_default_commander_permissions(user_id) ==
    IF \E r \in permissions : r.user_id = user_id
    THEN permissions
    ELSE permissions \cup {[id |-> Cardinality(permissions) + 1, user_id |-> user_id,
                             flags |-> DefaultPermissions]}

\* A bug to compare with: the row is inserted without looking for one, into
\* a table without UNIQUE.
PermissionsAfterGetNoLookup(telegram_id) ==
    LET user == GetUser(telegram_id) IN
    IF user = NoRow THEN permissions
    ELSE permissions \cup {[id |-> Cardinality(permissions) + 1, user_id |-> user.id,
                             flags |-> DefaultPermissions]}

\* The table after get_commander_permissions(telegram_id): the row is created
\* when the user exists and has none.
PermissionsAfterGet(telegram_id) ==
    LET user == GetUser(telegram_id) IN
    IF user = NoRow \/ GetPermissions(user.id) # NoPermissions THEN permissions
    ELSE create_default_commander_permissions(user.id)

\* get_commander_permissions: the row is read again after it was created.
get_commander_permissions(telegram_id) ==
    LET user == GetUser(telegram_id) IN
    /\ AllIdle
    /\ permissions' = PermissionsAfterGet(telegram_id)
    /\ reply' = [user |-> telegram_id, tag |-> "get_commander_permissions",
                 result |-> IF user = NoRow THEN NoPermissions
                            ELSE CHOOSE r \in permissions' : r.user_id = user.id]
    /\ UNCHANGED <<users, events, attendance, admin_ids, actor, fsm, tasks, executed, flow,
                   arrivals, faults>>

\* The steps of get_commander_permissions, one store statement each.  The
\* table of the permissions is writable or not for the whole call; count is
\* the depth of the nested calls.
get_commander_permissions_call(t, telegram_id, table) ==
    /\ AllIdle
    /\ tasks' = [tasks EXCEPT ![t] =
                    [IdleTask EXCEPT !.pc = "perm_get_user", !.user = telegram_id,
                                     !.kind = "permissions", !.arg = table,
                                     !.count = 1]]
    /\ UNCHANGED <<users, events, attendance, permissions, admin_ids, actor, fsm, reply,
                   executed, flow, arrivals, faults>>

\* user = await self.get_user(telegram_id); if not user: return None
perm_get_user(t) ==
    /\ At(t, "perm_get_user")
    /\ LET user == GetUser(tasks[t].user) IN
       IF user = NoRow
       THEN /\ reply' = [user |-> tasks[t].user, tag |-> "get_commander_permissions",
                         result |-> NoPermissions]
            /\ Done(t)
       ELSE /\ tasks' = [tasks EXCEPT ![t].row = user, ![t].pc = "perm_select"]
            /\ UNCHANGED reply
    /\ UNCHANGED <<users, events, attendance, permissions, admin_ids, actor, fsm, executed,
                   flow, arrivals, faults>>

\* SELECT * FROM commander_permissions WHERE user_id = ?; if row: return it
perm_select(t) ==
    /\ At(t, "perm_select")
    /\ LET row == GetPermissions(tasks[t].row.id) IN
       IF row # NoPermissions
       THEN /\ reply' = [user |-> tasks[t].user, tag |-> "get_commander_permissions",
                         result |-> row]
            /\ Done(t)
       ELSE /\ Goto(t, "perm_create")
            /\ UNCHANGED reply
    /\ UNCHANGED <<users, events, attendance, permissions, admin_ids, actor, fsm, executed,
                   flow, arrivals, faults>>

\* await self.create_default_commander_permissions(user['id']): the INSERT
\* raises on a table that cannot be written, the except clause returns False
\* and the caller does not look at the result.
perm_create(t) ==
    /\ At(t, "perm_create")
    /\ permissions' = IF tasks[t].arg = "writable"
                      THEN create_default_commander_permissions(tasks[t].row.id)
                      ELSE permissions
    /\ Goto(t, "perm_recurse")
    /\ UNCHANGED <<users, events, attendance, admin_ids, actor, fsm, reply, executed, flow,
                   arrivals, faults>>

\* return await self.get_commander_permissions(telegram_id): the nested call
\* starts over; at the limit of the interpreter it raises RecursionError,
\* which except Exception catches: return None, through every level.
perm_recurse(t) ==
    /\ At(t, "perm_recurse")
    /\ IF tasks[t].count < RecursionLimit
       THEN /\ tasks' = [tasks EXCEPT ![t].count = @ + 1, ![t].pc = "perm_get_user"]
            /\ UNCHANGED reply
       ELSE /\ reply' = [user |-> tasks[t].user, tag |-> "get_commander_permissions",
                         result |-> NoPermissions]
            /\ Done(t)
    /\ UNCHANGED <<users, events, attendance, permissions, admin_ids, actor, fsm, executed,
                   flow, arrivals, faults>>

\* update_commander_permissions: every key that starts with "can_" is put in
\* the SET clause; the UPDATE raises when one of them names no column, and
\* the except clause returns False.  Without such a key nothing is returned.
update_commander_permissions(telegram_id, input) ==
    LET user == GetUser(telegram_id)
        update_fields == {k \in DOMAIN input : StartsWithCan(k)}
        written == update_fields # {} /\ update_fields \subseteq PermissionNames
        created == PermissionsAfterGet(telegram_id) IN
    /\ AllIdle
    /\ Room
    /\ IF user = NoRow
       THEN /\ UNCHANGED <<permissions, events>>
            /\ reply' = [user |-> telegram_id, tag |-> "update_commander_permissions",
                         result |-> "False"]
       ELSE /\ permissions' =
                 IF written
                 THEN {IF r.user_id = user.id
                       THEN [r EXCEPT !.flags = [p \in PermissionNames |->
                                IF p \in update_fields THEN input[p] ELSE @[p]]]
                       ELSE r : r \in created}
                 ELSE created
            /\ events' = IF written
                         THEN LogEvent(user.id, "permissions_updated",
                                       <<"Obnovleny_prava", input>>)
                         ELSE events
            /\ reply' = [user |-> telegram_id, tag |-> "update_commander_permissions",
                         result |-> IF written THEN "True"
                                    ELSE IF update_fields = {} THEN None ELSE "False"]
    /\ UNCHANGED <<users, attendance, admin_ids, actor, fsm, tasks, executed, flow, arrivals,
                   faults>>

\* check_commander_permission: permissions.get(permission, False) on the
\* record that get_commander_permissions returns, and creates when absent.
check_commander_permission(telegram_id, permission) ==
    LET user == GetUser(telegram_id) IN
    /\ AllIdle
    /\ permissions' = PermissionsAfterGet(telegram_id)
    /\ reply' = [user |-> telegram_id, tag |-> "check_commander_permission",
                 result |-> IF user = NoRow \/ permission \notin PermissionNames
                            THEN "False"
                            ELSE IF (CHOOSE r \in permissions' :
                                        r.user_id = user.id).flags[permission]
                            THEN "True" ELSE "False"]
    /\ UNCHANGED <<users, events, attendance, admin_ids, actor, fsm, tasks, executed, flow,
                   arrivals, faults>>

(* ---------------- AdminPanel.add_admin, remove_admin ------------------ *)

\* The ids that are added to and removed from the admin list.
AdminCandidates == {1, 2, 3}

\* list.remove(x): the first item equal to x is removed.
RECURSIVE ListRemove(_, _)
ListRemove(list, x) ==
    IF list = <<>> THEN <<>>
    ELSE IF Head(list) = x THEN Tail(list)
    ELSE <<Head(list)>> \o ListRemove(Tail(list), x)

\* add_admin: telegram_id not in ADMIN_IDS -> append, log_event, True
AdminPanel_add_admin(telegram_id) ==
    /\ AllIdle
    /\ Room
    /\ IF ~IsAdmin(telegram_id)
       THEN /\ admin_ids' = Append(admin_ids, telegram_id)
            /\ events' = LogEvent(NoId, "admin_added",
                                  <<"Dobavlen_admin", ToString(telegram_id)>>)
            /\ reply' = [user |-> telegram_id, tag |-> "add_admin", result |-> "True"]
       ELSE /\ reply' = [user |-> telegram_id, tag |-> "add_admin", result |-> "False"]
            /\ UNCHANGED <<admin_ids, events>>
    /\ UNCHANGED <<users, attendance, permissions, actor, fsm, tasks, executed, flow,
                   arrivals, faults>>

\* A bug to compare with: the last admin can be removed.
CanRemoveLastAdmin(telegram_id) == IsAdmin(telegram_id)

\* telegram_id in self.config.ADMIN_IDS and len(self.config.ADMIN_IDS) > 1
CanRemoveAdmin(telegram_id) == IsAdmin(telegram_id) /\ Len(admin_ids) > 1

\* remove_admin: ADMIN_IDS.remove(telegram_id), log_event, True
AdminPanel_remove_admin(telegram_id) ==
    /\ AllIdle
    /\ Room
    /\ IF CanRemoveAdmin(telegram_id)
       THEN /\ admin_ids' = ListRemove(admin_ids, telegram_id)
            /\ events' = LogEvent(NoId, "admin_removed",
                                  <<"Udalen_admin", ToString(telegram_id)>>)
            /\ reply' = [user |-> telegram_id, tag |-> "remove_admin", result |-> "True"]
       ELSE /\ reply' = [user |-> telegram_id, tag |-> "remove_admin", result |-> "False"]
            /\ UNCHANGED <<admin_ids, events>>
    /\ UNCHANGED <<users, attendance, permissions, actor, fsm, tasks, executed, flow,
                   arrivals, faults>>

(* --------------- AdminPanel.add_user, AdminPanel.delete_user ---------- *)

AdminPanel_add_user(t, telegram_id, name, location) ==
    /\ Idle(t)
    /\ Room
    /\ \E ok \in Outcomes :
         /\ Spend(ok)
         /\ DbAddUser(t, telegram_id, "admin_add", name, location, ok)
    /\ OtherCommand
    /\ UNCHANGED <<events, attendance, permissions, admin_ids, actor, fsm, executed, flow>>

\* user = await self.db.get_user(telegram_id); if not user: return False
AdminPanel_delete_user(t, telegram_id) ==
    /\ Idle(t)
    /\ IF GetUser(telegram_id) = NoRow
       THEN UNCHANGED tasks
       ELSE Room /\ Begin(t, telegram_id, "delete_get_user", "delete", None)
    /\ OtherCommand
    /\ UNCHANGED <<users, events, attendance, permissions, admin_ids, actor, fsm, reply, executed, flow,
                   faults>>

\* Database.delete_user: user = await self.get_user(telegram_id)
delete_get_user(t) ==
    /\ At(t, "delete_get_user")
    /\ tasks' = [tasks EXCEPT ![t].row = GetUser(tasks[t].user), ![t].pc = "delete_row"]
    /\ UNCHANGED <<users, events, attendance, permissions, admin_ids, actor, fsm, reply, executed, flow,
                   arrivals, faults>>

\* DELETE FROM users WHERE telegram_id = ?; rowcount 0 returns False
delete_row(t) ==
    /\ At(t, "delete_row")
    /\ \E ok \in Outcomes :
         LET k == tasks[t] IN
         /\ Spend(ok)
         /\ IF ok /\ GetUser(k.user) # NoRow
            THEN /\ users' = DeleteRow(k.user)
                 /\ IF k.row # NoRow THEN Goto(t, "delete_log") ELSE Done(t)
            ELSE /\ UNCHANGED users
                 /\ Done(t)
    /\ UNCHANGED <<events, attendance, permissions, admin_ids, actor, fsm, reply, executed, flow, arrivals>>

\* log_event(None, "user_deleted", ...)
delete_log(t) ==
    /\ At(t, "delete_log")
    /\ \E ok \in Outcomes :
         LET k == tasks[t] IN
         /\ Spend(ok)
         /\ events' = IF ok
                      THEN LogEvent(NoId, "user_deleted", <<"Udalen_polzovatel", k.row.name>>)
                      ELSE events
    /\ Done(t)
    /\ UNCHANGED <<users, attendance, permissions, admin_ids, actor, fsm, reply, executed, flow, arrivals>>

(* --------------------------- specifications --------------------------- *)

InitState(f) ==
    /\ users = {}
    /\ events = <<>>
    /\ attendance = {}
    /\ permissions = {}
    /\ admin_ids = InitialAdminIds
    /\ fsm = [u \in Users |-> IdleFsm]
    /\ tasks = [t \in TaskIds |-> IdleTask]
    /\ reply = [user |-> NoId, tag |-> None]
    /\ actor \in Users
    /\ executed = NoExecution
    /\ flow = [u \in Users |-> NoFlow]
    /\ arrivals = NoArrivals
    /\ faults = f

\* The attendance flows: registration, arrival, departure, the admin's
\* add-user and delete-user; one handler at a time, no statement fails.
Init == InitState(0)

Next ==
    \/ start_command(1, actor)
    \/ \E text \in Texts : handle_text_message(1, actor, text)
    \/ \E data \in OtherData : handle_callback_query(1, actor, data)
    \/ \E data \in UserData : handle_user_callback(1, actor, data)
    \/ \E u \in Users, loc \in AddLocations : AdminPanel_add_user(1, u, "Ivanov", loc)
    \/ \E u \in Users : AdminPanel_delete_user(1, u)
    \/ start_set_state(1)
    \/ add_user_log(1)
    \/ name_update_data(1)
    \/ name_set_state(1)
    \/ handle_custom_location_input(1)
    \/ ss_get_user(1)
    \/ ss_update(1)
    \/ ss_log(1)
    \/ finish_state(1)
    \/ departure_set_state(1)
    \/ custom_set_state(1)
    \/ delete_get_user(1)
    \/ delete_row(1)
    \/ delete_log(1)

Spec == Init /\ [][Next]_vars

\* The dangerous-operation flow and the journal filter, for the admin and
\* for a user who is no admin; one handler at a time, no statement fails.
NextDanger ==
    \/ \E text \in DangerTexts : handle_text_message(1, actor, text)
    \/ \E data \in AdminData : handle_admin_callback(1, actor, data)
    \/ \E u \in Users : AdminPanel_add_user(1, u, "Ivanov", None)
    \/ add_user_log(1)
    \/ handle_danger_confirmation_input(1)
    \/ handle_filter_input(1)
    \/ finish_state(1)
    \/ mark_get_user(1)
    \/ mark_insert(1)
    \/ mark_log(1)
    \/ mark_all_log(1)

SpecDanger == Init /\ [][NextDanger]_vars

\* Two handlers in flight: arrival and departure of the user, add-user and
\* delete-user for the same user; the steps interleave at the store calls.
NextConc ==
    \/ \E t \in TaskIds, data \in StatusData : handle_user_callback(t, actor, data)
    \/ \E t \in TaskIds : AdminPanel_add_user(t, actor, "Ivanov", None)
    \/ \E t \in TaskIds : AdminPanel_delete_user(t, actor)
    \/ \E t \in TaskIds : add_user_log(t)
    \/ \E t \in TaskIds : ss_get_user(t)
    \/ \E t \in TaskIds : ss_update(t)
    \/ \E t \in TaskIds : ss_log(t)
    \/ \E t \in TaskIds : finish_state(t)
    \/ \E t \in TaskIds : delete_get_user(t)
    \/ \E t \in TaskIds : delete_row(t)
    \/ \E t \in TaskIds : delete_log(t)

SpecConc == Init /\ [][NextConc]_vars

\* One handler at a time; up to MaxFaults store statements fail.
InitFault == InitState(MaxFaults)

NextFault ==
    \/ \E data \in StatusData : handle_user_callback(1, actor, data)
    \/ AdminPanel_add_user(1, actor, "Ivanov", None)
    \/ AdminPanel_delete_user(1, actor)
    \/ add_user_log(1)
    \/ ss_get_user(1)
    \/ ss_update(1)
    \/ ss_log(1)
    \/ finish_state(1)
    \/ delete_get_user(1)
    \/ delete_row(1)
    \/ delete_log(1)

SpecFault == InitFault /\ [][NextFault]_vars

\* The store interface called directly: add_user and set_soldier_status with
\* every status and location; one call at a time, no statement fails.
NextStore ==
    \/ \E u \in Users, st \in {IN_UNIT, AWAY}, loc \in StoreLocations :
          Database_set_soldier_status(1, u, st, loc)
    \/ AdminPanel_add_user(1, actor, "Ivanov", None)
    \/ add_user_log(1)
    \/ ss_update(1)
    \/ ss_log(1)

SpecStore == Init /\ [][NextStore]_vars

\* The registration of a user who starts unregistered on an empty store:
\* /start, the texts and the buttons of the flow; one handler at a time.
NextReg ==
    \/ start_command(1, actor)
    \/ \E text \in Texts : handle_text_message(1, actor, text)
    \/ \E data \in RegData : handle_user_callback(1, actor, data)
    \/ start_set_state(1)
    \/ add_user_log(1)
    \/ name_update_data(1)
    \/ name_set_state(1)
    \/ handle_custom_location_input(1)
    \/ custom_set_state(1)
    \/ ss_get_user(1)
    \/ ss_update(1)
    \/ ss_log(1)
    \/ finish_state(1)

SpecReg == Init /\ [][NextReg]_vars

\* The registration and the departure with the notification of the admins,
\* which is sent or fails, or is not sent when notifications are disabled.
NextNotify ==
    \/ NextReg
    \/ handle_user_callback(1, actor, <<"user", "departed">>)
    \/ departure_set_state(1)
    \/ send_admin_notification(1)

SpecNotify == Init /\ [][NextNotify]_vars

\* The commands of the double press: the request, the token, the button.
DoubleData == {<<"admin", "danger_zone", "clear_all_data">>,
               <<"admin", "confirm_text", "yes">>}

\* Two handle_admin_callback in flight for the presses of one user: the
\* dispatcher starts a task per update, and the tasks interleave between the
\* read of the payload with the call of the operation and state.finish().
NextDouble ==
    \/ handle_text_message(1, actor, "Da_pad")
    \/ handle_danger_confirmation_input(1)
    \/ \E t \in TaskIds, data \in DoubleData : handle_admin_callback(t, actor, data)
    \/ \E t \in TaskIds : finish_state(t)

SpecDouble == Init /\ [][NextDouble]_vars

\* Two users talk at once: the handler t serves the user t, and the steps of
\* the two handlers interleave at their awaits.  Both users have registered
\* as present in the unit, which the journal shows.
RegisteredRow(u) ==
    [id |-> u, telegram_id |-> u, name |-> "Ivanov", location |-> None,
     status |-> IN_UNIT, is_admin |-> FALSE]

InitTwo ==
    /\ users = {RegisteredRow(u) : u \in Users}
    /\ events = [u \in 1..2 |-> Event(u, "user_added", <<"Dobavlen_polzovatel", "Ivanov">>)]
    /\ attendance = {}
    /\ permissions = {}
    /\ admin_ids = InitialAdminIds
    /\ fsm = [u \in Users |-> IdleFsm]
    /\ tasks = [t \in TaskIds |-> IdleTask]
    /\ reply = [user |-> NoId, tag |-> None]
    /\ actor = 1
    /\ executed = NoExecution
    /\ flow = [u \in Users |-> NoFlow]
    /\ arrivals = NoArrivals
    /\ faults = 0

NextTwo ==
    \/ \E t \in TaskIds, text \in TwoTexts : handle_text_message(t, t, text)
    \/ \E t \in TaskIds, data \in TwoData : handle_user_callback(t, t, data)
    \/ \E t \in TaskIds, data \in TwoData : handle_admin_callback(t, t, data)
    \/ \E t \in TaskIds : departure_set_state(t)
    \/ \E t \in TaskIds : custom_set_state(t)
    \/ \E t \in TaskIds : handle_custom_location_input(t)
    \/ \E t \in TaskIds : handle_filter_input(t)
    \/ \E t \in TaskIds : ss_get_user(t)
    \/ \E t \in TaskIds : ss_update(t)
    \/ \E t \in TaskIds : ss_log(t)
    \/ \E t \in TaskIds : finish_state(t)

SpecTwo == InitTwo /\ [][NextTwo]_vars

\* The admin panel: the store holds n registered users, the caller sends
\* commands to the router or calls the panel, and a store read may fail.
InitPanel ==
    /\ \E n \in 0..MaxListed :
         /\ users = {RegisteredRow(i) : i \in 1..n}
         /\ events = [i \in 1..n |->
                         Event(i, "user_added", <<"Dobavlen_polzovatel", "Ivanov">>)]
    /\ attendance = {}
    /\ permissions = {}
    /\ admin_ids = InitialAdminIds
    /\ fsm = [u \in Users |-> IdleFsm]
    /\ tasks = [t \in TaskIds |-> IdleTask]
    /\ reply = [user |-> NoId, tag |-> None]
    /\ actor \in Users
    /\ executed = NoExecution
    /\ flow = [u \in Users |-> NoFlow]
    /\ arrivals = NoArrivals
    /\ faults = MaxFaults

NextPanel ==
    \/ \E data \in PanelData : AdminPanel_call(actor, data)
    \/ \E data \in RouterData : handle_admin_callback(1, actor, data)
    \/ \E data \in UnknownData : handle_callback_query(1, actor, data)
    \/ \E data \in UnknownUserData : handle_user_callback(1, actor, data)

SpecPanel == InitPanel /\ [][NextPanel]_vars

\* The permissions of the commanders: the store holds n registered users,
\* and the two store methods are called for them and for an id without user.
InitPerm ==
    /\ \E n \in 0..2 :
         /\ users = {RegisteredRow(i) : i \in 1..n}
         /\ events = [i \in 1..n |->
                         Event(i, "user_added", <<"Dobavlen_polzovatel", "Ivanov">>)]
    /\ attendance = {}
    /\ permissions = {}
    /\ admin_ids = InitialAdminIds
    /\ fsm = [u \in Users |-> IdleFsm]
    /\ tasks = [t \in TaskIds |-> IdleTask]
    /\ reply = [user |-> NoId, tag |-> None]
    /\ actor = 1
    /\ executed = NoExecution
    /\ flow = [u \in Users |-> NoFlow]
    /\ arrivals = NoArrivals
    /\ faults = 0

NextPerm ==
    \/ \E u \in Users : get_commander_permissions(u)
    \/ \E u \in Users, input \in PermissionInputs : update_commander_permissions(u, input)
    \/ \E u \in Users, permission \in {"can_view_personnel", "can_export_data", "can_fly"} :
          check_commander_permission(u, permission)

SpecPerm == InitPerm /\ [][NextPerm]_vars

\* get_commander_permissions step by step, on a table that can be written
\* and on one that cannot.
NextRecur ==
    \/ \E u \in Users, table \in {"writable", "readonly"} :
          get_commander_permissions_call(1, u, table)
    \/ \E u \in Users, input \in PermissionInputs : update_commander_permissions(u, input)
    \/ perm_get_user(1)
    \/ perm_select(1)
    \/ perm_create(1)
    \/ perm_recurse(1)

SpecRecur == InitPerm /\ [][NextRecur]_vars

\* The admin list of the configuration: one or two ids, none twice.
InitAdmins ==
    /\ users = {}
    /\ events = <<>>
    /\ attendance = {}
    /\ permissions = {}
    /\ admin_ids \in {<<1>>, <<1, 2>>, <<3, 1>>}
    /\ fsm = [u \in Users |-> IdleFsm]
    /\ tasks = [t \in TaskIds |-> IdleTask]
    /\ reply = [user |-> NoId, tag |-> None]
    /\ actor \in Users
    /\ executed = NoExecution
    /\ flow = [u \in Users |-> NoFlow]
    /\ arrivals = NoArrivals
    /\ faults = 0

NextAdmins ==
    \/ \E telegram_id \in AdminCandidates : AdminPanel_add_admin(telegram_id)
    \/ \E telegram_id \in AdminCandidates : AdminPanel_remove_admin(telegram_id)

SpecAdmins == InitAdmins /\ [][NextAdmins]_vars

\* The operations that write the journal, called one at a time: status
\* changes, add and delete of a user, a permission update, the operations
\* that only log, and mark-all-arrived.
NextJournal ==
    \/ \E data \in StatusData : handle_user_callback(1, actor, data)
    \/ \E u \in Users : AdminPanel_add_user(1, u, "Ivanov", None)
    \/ \E u \in Users : AdminPanel_delete_user(1, u)
    \/ update_commander_permissions(actor, [can_export_data |-> TRUE])
    \/ \E action \in {"journal_cleared", "clear_all_data", "reset_settings", "maintenance"} :
          AdminPanel_log_operation(actor, action)
    \/ AdminPanel_mark_all_arrived(1, actor)
    \/ add_user_log(1)
    \/ delete_get_user(1)
    \/ delete_row(1)
    \/ delete_log(1)
    \/ ss_get_user(1)
    \/ ss_update(1)
    \/ ss_log(1)
    \/ finish_state(1)
    \/ mark_get_user(1)
    \/ mark_insert(1)
    \/ mark_log(1)
    \/ mark_all_log(1)

SpecJournal == Init /\ [][NextJournal]_vars

(* ------------------------------- claims ------------------------------- *)

\* C1: every stored user has status AWAY if and only if its location is not
\* null.
C1_AwayIffLocation ==
    \A r \in users : (r.status = AWAY) <=> (r.location # None)

\* C2: whatever admin callbacks and texts a user who is no admin issues, no
\* dangerous operation is executed for that user and the journal holds no
\* Event of a dangerous operation.
C2_NonAdminChangesNothing ==
    ~IsAdmin(actor) =>
        /\ executed = NoExecution
        /\ \A i \in 1..Len(events) :
              events[i].action \notin DangerOps \cup {"attendance_marked"}

\* C3: presses one after the other: a typed token waits for the button with
\* the payload in place; every execution is started on a typed token that no
\* earlier execution has used; and when the confirm handler has answered and
\* ended, the user's state is IDLE with the payload gone.
C3_ExecutedOncePerToken ==
    /\ executed # NoExecution => executed.tok
    /\ \A u \in Users :
          (AllIdle /\ flow[u].tok) =>
              /\ fsm[u].data.text_confirmed
              /\ SelectedOp(fsm[u].data.danger_action) \in DangerOps
    /\ (AllIdle /\ reply.tag \in DangerOps) =>
          /\ fsm[reply.user] = IdleFsm
          /\ ~flow[reply.user].tok

C3_Witness ==
    /\ AllIdle
    /\ executed # NoExecution
    /\ executed.tok
    /\ reply = [user |-> executed.user, tag |-> executed.op]
    /\ fsm[executed.user] = IdleFsm

\* C4: once the cancel button of step 2 is pressed on a typed token, the
\* user's state is IDLE with the payload gone, and no execution is started on
\* the cancelled confirmation.
C4_CancelDiscards ==
    /\ \A u \in Users : flow[u].cancelled => fsm[u] = IdleFsm
    /\ ~executed.cancelled

\* C5: when the handler of the typed confirmation ends on a text that is not
\* the token, the user's state is IDLE with the payload gone, and the step
\* executes no operation and writes no Event.
C5_OtherTextCancels ==
    [][\A t \in TaskIds :
          (/\ At(t, "danger_text")
           /\ Lower(Strip(Chars(tasks[t].arg))) # Chars("da")
           /\ tasks'[t].pc = "idle")
          => /\ fsm'[tasks[t].user] = IdleFsm
             /\ executed' = executed
             /\ events' = events]_vars

C5_Witness ==
    /\ AllIdle
    /\ reply.tag = "operation_cancelled"
    /\ fsm[reply.user] = IdleFsm
    /\ executed = NoExecution

\* C6: every execution is started on a token that was typed after the
\* operation was requested.
C6_TokenTypedInTheFlow ==
    executed # NoExecution => executed.fresh

\* The arrival Events appended after the first n Events.
ArrivalEventsSince(n) ==
    Cardinality({i \in (n + 1)..Len(events) : events[i].action = IN_UNIT})

\* C7 as stated: two arrival commands of a registered user, one after the
\* other, append exactly one arrival Event in total.
C7_OneArrivalEvent ==
    (AllIdle /\ arrivals.prev.user # NoId /\ arrivals.prev.registered) =>
        ArrivalEventsSince(arrivals.prev.base) = 1

\* C7, corrected: two arrival commands of a registered user, one after the
\* other, append one arrival Event in total when the user was AWAY before the
\* first and none when the user was already IN_UNIT; in both cases the second
\* finds the user IN_UNIT, answers with the notice and writes no Event.
C7_ArrivalIdempotent ==
    (AllIdle /\ arrivals.prev.user # NoId /\ arrivals.prev.registered) =>
        /\ ArrivalEventsSince(arrivals.prev.base) =
              IF arrivals.prev.away THEN 1 ELSE 0
        /\ Len(events) = arrivals.cur.base
        /\ reply = [user |-> arrivals.cur.user, tag |-> "already_in_unit"]
        /\ GetUser(arrivals.cur.user).status = IN_UNIT

C7_Witness ==
    /\ AllIdle
    /\ arrivals.prev.user # NoId
    /\ arrivals.prev.registered
    /\ arrivals.prev.away
    /\ Len(events) = arrivals.prev.base + 1
    /\ reply.tag = "already_in_unit"

\* C8: between two arrival Events of one user record the journal holds a
\* departure Event of that record: one absence, at most one arrival Event.
C8_OneArrivalPerAbsence ==
    \A i, j \in 1..Len(events) :
        (/\ i < j
         /\ events[i].action = IN_UNIT
         /\ events[j].action = IN_UNIT
         /\ events[i].user_id = events[j].user_id)
        => \E k \in (i + 1)..(j - 1) :
              /\ events[k].user_id = events[i].user_id
              /\ events[k].action = AWAY

StatusActions == {"user_added", IN_UNIT, AWAY}

RowEvents(id) ==
    {i \in 1..Len(events) : events[i].user_id = id /\ events[i].action \in StatusActions}

\* The latest Event of the row tells the row's status and location.
RowLogged(r) ==
    LET last == CHOOSE i \in RowEvents(r.id) : \A j \in RowEvents(r.id) : j <= i
        e == events[last]
    IN IF e.action = "user_added"
       THEN r.status = IN_UNIT
       ELSE r.status = e.action /\ e.details = StatusDetails(r.location)

\* C9: in every state, the states between the store calls of a handler
\* included, the status and the location of each row whose insertion is in
\* the journal are those of the latest Event of the row.
C9_WriteAndEventTogether ==
    \A r \in users : RowEvents(r.id) # {} => RowLogged(r)

\* C10: when set_soldier_status has returned success to a handler, the Event
\* of the new status, with its location detail, is the one appended last.
C10_SuccessHasEvent ==
    \A t \in TaskIds :
        (At(t, "finish_state") /\ tasks[t].kind \in {"departure", "registration"})
        => /\ events # <<>>
           /\ events[Len(events)] =
                 Event(tasks[t].row.id, tasks[t].st, StatusDetails(tasks[t].loc))

\* C11: once set_soldier_status has written the new status IN_UNIT, the
\* stored location of the user is null, whatever location was passed.
C11_InUnitStoresNull ==
    \A t \in TaskIds :
        (At(t, "ss_log") /\ tasks[t].st = IN_UNIT)
        => GetUser(tasks[t].user).location = None

\* C12: set_soldier_status with the new status AWAY and an empty or missing
\* location never gets to its write: the row keeps the status and location it
\* had, and the call does not return success.
C12_AwayNeedsLocation ==
    /\ \A t \in TaskIds :
          (tasks[t].kind = "set_status" /\ tasks[t].st = AWAY
           /\ ~Truthy(tasks[t].loc) /\ ~Idle(t))
          => /\ At(t, "ss_update")
             /\ GetUser(tasks[t].user) = tasks[t].row
    /\ \A u \in Users :
          GetUser(u).status = AWAY => Truthy(GetUser(u).location)

\* C13: when the cancel command has been answered, the conversation state of
\* the user is IDLE and the payload is gone.
C13_CancelReturnsToIdle ==
    reply.tag = "cancelled" => fsm[reply.user] = IdleFsm

\* C14: a text that validate_full_name rejects, entered in the state awaiting
\* the name, is not taken as a name: the name handler does not go on with it
\* and no user record carries it.
C14_InvalidNameRejected ==
    /\ \A t \in TaskIds :
          (tasks[t].kind = "name_input" /\ ~Idle(t)) => validate_full_name(tasks[t].arg)
    /\ \A r \in users : validate_full_name(r.name)

\* A text that is shorter than four characters or holds a character other
\* than Cyrillic letters, spaces and hyphens.
BadLocationText(text) ==
    \/ Len(Chars(text)) < 4
    \/ \E i \in 1..Len(Chars(text)) : ~IsLocationChar(Chars(text)[i])

\* C15: the step of the custom-location handler on such a text ends the
\* handler with a rejection; the conversation state and its payload, the user
\* records and the journal are as before the step, and the state is still the
\* custom-location step.
C15_BadLocationRejected ==
    [][\A t \in TaskIds :
          (/\ At(t, "custom_location")
           /\ BadLocationText(tasks[t].arg)
           /\ tasks'[t] # tasks[t])
          => /\ tasks'[t].pc = "idle"
             /\ reply'.tag \in {"location_too_short", "location_not_cyrillic"}
             /\ fsm' = fsm
             /\ fsm[tasks[t].user].state = "waiting_for_custom_location"
             /\ users' = users
             /\ events' = events]_vars

C15_Witness ==
    /\ AllIdle
    /\ reply.tag = "location_not_cyrillic"
    /\ fsm[reply.user].state = "waiting_for_custom_location"
    /\ fsm[reply.user].data.is_registration
    /\ GetUser(reply.user).status = IN_UNIT

\* The two Events of a completed registration of the row r.
RegistrationEvents(r) ==
    <<Event(r.id, "user_added", <<"Dobavlen_polzovatel", r.name>>),
      Event(r.id, r.status, StatusDetails(r.location))>>

\* C16: when the custom-location handler of a registration has stored the
\* entered location, the user has status AWAY and that location and the
\* journal holds exactly the two Events user_added and the status change; when
\* the registration has been answered as complete and the handler has ended,
\* the journal still holds exactly these two Events and the conversation state
\* of the user is IDLE with an empty payload.
C16_RegistrationAway ==
    /\ \A t \in TaskIds :
          (At(t, "finish_state") /\ tasks[t].kind = "registration"
           /\ tasks[t].st = AWAY)
          => LET r == GetUser(tasks[t].user) IN
             /\ r # NoRow
             /\ r.status = AWAY
             /\ r.location = tasks[t].loc
             /\ Truthy(r.location)
             /\ events = RegistrationEvents(r)
    /\ (AllIdle /\ reply.tag = "registration_complete")
          => LET r == GetUser(reply.user) IN
             /\ r # NoRow
             /\ events = RegistrationEvents(r)
             /\ fsm[reply.user] = IdleFsm

C16_Witness ==
    /\ AllIdle
    /\ reply.tag = "registration_complete"
    /\ fsm[reply.user] = IdleFsm
    /\ GetUser(reply.user).name = "Ivanov"
    /\ GetUser(reply.user).status = AWAY
    /\ GetUser(reply.user).location = "Sklad"
    /\ Len(events) = 2

\* The handler t is in the in-unit branch of the registration.
InUnitBranch(t) ==
    tasks[t].kind = "registration" /\ tasks[t].st = IN_UNIT /\ ~Idle(t)

\* C17: the in-unit branch runs only while a name is pending in the payload;
\* it passes no location, and once its write is done the user has status
\* IN_UNIT and a null location and the journal holds user_added and the one
\* status Event; until its last step the conversation state is untouched, and
\* its last step takes the state from awaiting the initial status to IDLE with
\* an empty payload.  A choice made with no pending name starts no branch.
C17_InUnitBranch ==
    [][\A t \in TaskIds :
          /\ InUnitBranch(t)' =>
                /\ tasks'[t].loc = None
                /\ Truthy(fsm'[tasks'[t].user].data.user_name)
                /\ tasks'[t].pc = "finish_state" =>
                      \E r \in users' :
                          /\ r.telegram_id = tasks'[t].user
                          /\ r.status = IN_UNIT
                          /\ r.location = None
                          /\ events' = RegistrationEvents(r)
          /\ InUnitBranch(t) =>
                LET u == tasks[t].user IN
                IF tasks'[t].pc = "idle" /\ At(t, "finish_state")
                THEN fsm[u].state = "waiting_for_initial_status" => fsm'[u] = IdleFsm
                ELSE fsm' = fsm]_vars

C17_Witness ==
    /\ AllIdle
    /\ reply.tag = "registration_complete"
    /\ fsm[reply.user] = IdleFsm
    /\ GetUser(reply.user).name = "Ivanov"
    /\ GetUser(reply.user).status = IN_UNIT
    /\ GetUser(reply.user).location = None
    /\ Len(events) = 2

\* C18: when the filter text has been answered with the filtered journal and
\* the handler has ended, the conversation state of the user is IDLE with an
\* empty payload, for the filter by name and for the filter by action.
C18_FilterEndsIdle ==
    (AllIdle /\ IsAdmin(reply.user)
     /\ reply.tag \in {"journal_by_name", "journal_by_action"})
        => fsm[reply.user] = IdleFsm

\* The handler t has recorded a departure: the UPDATE of set_soldier_status
\* is done.
RecordsDeparture(t) == tasks[t].kind = "departure" /\ At(t, "ss_log")

\* C19: a departure is recorded only for a user whose conversation state is
\* a location-choice step; a location callback received in another state
\* writes nothing.
C19_LocationOnlyInItsStep ==
    \A t \in TaskIds :
        RecordsDeparture(t) =>
            fsm[tasks[t].user].state \in
                {"waiting_for_location", "waiting_for_custom_location"}

\* C20: on every handler path that records a departure, the status write is
\* made only for a user whose record, read just before it, is IN_UNIT.
C20_DepartureOnlyFromInUnit ==
    \A t \in TaskIds :
        (tasks[t].kind = "departure" /\ At(t, "ss_update"))
            => tasks[t].row.status = IN_UNIT

\* The arrival command issued last has been handled and was that of a
\* registered user who was AWAY.
ArrivalOfAwayDone ==
    /\ AllIdle
    /\ arrivals.cur.user # NoId
    /\ arrivals.cur.registered
    /\ arrivals.cur.away

\* In whatever conversation state it was issued, the arrival has set the
\* status IN_UNIT with a null location and appended the one Event.
ArrivalProcessed ==
    ArrivalOfAwayDone =>
        LET u == arrivals.cur.user
            r == GetUser(u)
        IN /\ r.status = IN_UNIT
           /\ r.location = None
           /\ Len(events) = arrivals.cur.base + 1
           /\ events[Len(events)] = Event(r.id, IN_UNIT, <<>>)
           /\ reply = [user |-> u, tag |-> "arrival_registered"]

\* C21: in every conversation state the arrival of an AWAY user sets the
\* status IN_UNIT and appends one Event; the departure and the my-status
\* command are answered from the user's record alone; none of the three
\* commands writes the user table or the journal in its first step, and the
\* arrival and the my-status command leave the conversation state as it is.
\* (A first step of a handler of u starts a task of u or answers u.)
C21_StaleStateHarmless ==
    [][/\ ArrivalProcessed'
       /\ \A t \in TaskIds, u \in Users :
             Idle(t) /\ (tasks'[t].user = u \/ reply'.user = u) =>
             /\ handle_user_callback(t, u, <<"user", "arrived">>) =>
                   /\ fsm' = fsm
                   /\ (GetUser(u).status = AWAY) <=> (tasks'[t].kind = "arrival")
             /\ handle_user_callback(t, u, <<"user", "my_status">>) =>
                   /\ fsm' = fsm /\ tasks' = tasks
                   /\ reply' = [user |-> u, tag |-> MyStatusReply(GetUser(u))]
             /\ handle_user_callback(t, u, <<"user", "departed">>) =>
                   /\ fsm' = fsm
                   /\ reply'.tag =
                         IF GetUser(u) = NoRow THEN "not_registered"
                         ELSE IF GetUser(u).status = AWAY THEN "already_away"
                         ELSE "choose_location"
                   /\ (GetUser(u).status = IN_UNIT)
                         <=> (tasks'[t].pc = "departure_set_state")]_vars

C21_Witness ==
    /\ ArrivalOfAwayDone
    /\ fsm[arrivals.cur.user].state = "waiting_for_custom_location"
    /\ GetUser(arrivals.cur.user).status = IN_UNIT
    /\ reply.tag = "arrival_registered"

\* The user whose command or text the step handles: the user of the handler
\* that moves, or, when the command is answered at once, the user answered.
StepUser ==
    IF \E t \in TaskIds : tasks'[t] # tasks[t]
    THEN LET t == CHOOSE x \in TaskIds : tasks'[x] # tasks[x]
         IN IF tasks[t].user # NoId THEN tasks[t].user ELSE tasks'[t].user
    ELSE reply'.user

\* C22: a step changes the conversation state or the payload of a user only
\* when it handles a command or a text of that user.
C22_StatePerUser ==
    [][\A b \in Users : fsm'[b] # fsm[b] => StepUser = b]_vars

C22_Witness ==
    /\ fsm[1].state = "waiting_for_filter_input"
    /\ fsm[2].state = "waiting_for_custom_location"
    /\ tasks[1].pc = "filter_input"
    /\ tasks[2].pc = "custom_location"

\* C23: for an admin the command admin:personnel:list_users is answered with
\* the listing of the personnel and admin:dashboard: with the dashboard.
C23_AdminRouted ==
    [][\A t \in TaskIds, u \in Users :
         /\ (IsAdmin(u) /\ handle_admin_callback(t, u, <<"admin", "personnel", "list_users">>)
              => reply'.tag \in {"users_list", "users_list_empty"})
         /\ (IsAdmin(u) /\ handle_admin_callback(t, u, <<"admin", "dashboard", "">>)
              => reply'.tag = "dashboard")]_vars

\* C24: a command of an unknown namespace, a user command of an unknown
\* action and, for an admin, an admin command of an unknown action are
\* answered with the "unknown" message, and the users, the journal and the
\* conversation states stay as they are.
C24_UnknownAnswered ==
    [][\A t \in TaskIds, u \in Users :
         /\ ((\E data \in UnknownData : handle_callback_query(t, u, data))
              => /\ reply' = [user |-> u, tag |-> "unknown_callback"]
                 /\ UNCHANGED <<users, events, fsm>>)
         /\ (handle_user_callback(t, u, <<"user", "bogus">>)
              => /\ reply' = [user |-> u, tag |-> "unknown_action"]
                 /\ UNCHANGED <<users, events, fsm>>)
         /\ (IsAdmin(u) /\ handle_admin_callback(t, u, <<"admin", "bogus", "">>)
              => /\ reply' = [user |-> u, tag |-> "panel_unknown_action"]
                 /\ UNCHANGED <<users, events, fsm>>)]_vars

C24_Witness ==
    /\ reply.user # NoId
    /\ reply.tag = "unknown_callback"
    /\ fsm[reply.user].state = "waiting_for_filter_input"
    /\ users # {}

\* C25: a call of the panel by a caller who is not an admin is answered, for
\* every command, with the denial and the back keyboard, and makes no store
\* statement: none can fail, and the store stays as it is.
C25_DenialBeforeStore ==
    [][\A u \in Users, data \in PanelData :
         ~IsAdmin(u) /\ AdminPanel_call(u, data)
         => /\ reply' = [user |-> u, tag |-> "no_access"]
            /\ ReplyKeyboard(reply'.tag) = "back"
            /\ UNCHANGED <<users, events, attendance, faults>>]_vars

C25_Witness ==
    /\ reply.user # NoId
    /\ ~IsAdmin(reply.user)
    /\ reply.tag = "no_access"
    /\ faults > 0
    /\ users # {}

\* C26: when a store statement fails while a command of the panel is
\* handled, the caller is answered with the failure message and the back
\* keyboard.
C26_FailureAnswered ==
    [][\A u \in Users, data \in PanelData :
         AdminPanel_call(u, data) /\ faults' < faults
         => /\ reply'.tag = "panel_error"
            /\ ReplyKeyboard(reply'.tag) = "back"]_vars

\* The users that a listing lists: every user of the store, none when the
\* read failed in this step.
ListedCount == IF faults' = faults THEN Cardinality(users) ELSE 0

\* The least number of pages of PerPage users that hold n users, at least 1.
PagesFor(n) ==
    IF n = 0 THEN 1
    ELSE CHOOSE k \in 1..n : k * PerPage >= n /\ (k - 1) * PerPage < n

IsListing(r) == r.tag \in {"users_list", "users_list_empty"}

\* C27: a listing of n users reports ceil(n / 8) pages, and 1 page when
\* there is no user.  Every step answers its caller, so a step that ends
\* with a listing is a call of the listing.
C27_TotalPages ==
    [][IsListing(reply') => reply'.total_pages = PagesFor(ListedCount)]_vars

C27_Witness ==
    /\ reply.tag = "users_list"
    /\ Cardinality(users) = 20
    /\ reply.total_pages = 3

\* The page that the suffix of list_users_<suffix> asks for, 1 when it is
\* not a number of a page.
RequestedPage(sub, total_pages) ==
    LET suffix == ListUsersSuffix[sub] IN
    IF IntParses(suffix) /\ IntValue(suffix) \in 1..total_pages
    THEN IntValue(suffix) ELSE 1

\* C28: personnel:list_users_<suffix> shows the page of the suffix when it
\* is a number within 1..total_pages, and page 1 otherwise.
C28_PageInRange ==
    [][\A u \in Users, sub \in PagingSubactions :
         /\ IsAdmin(u)
         /\ AdminPanel_call(u, <<"personnel", sub>>)
         /\ faults' = faults
         => LET page == RequestedPage(sub, PagesFor(Cardinality(users))) IN
            /\ IsListing(reply')
            /\ reply'.page = page
            /\ reply'.users_on_page =
                   SubSeq(OrderByName(users), (page - 1) * PerPage + 1,
                          IF page * PerPage < Cardinality(users)
                          THEN page * PerPage ELSE Cardinality(users))]_vars

\* C29: get_commander_permissions of a user without a record creates the
\* record with the default flags and returns it; with a record it returns
\* the record and creates none; for an id without user it returns nothing
\* and creates none; and no user has two records.
C29_LazyPermissions ==
    [][\A u \in Users :
         get_commander_permissions(u)
         => LET user == GetUser(u)
                stored == GetPermissions(user.id) IN
            /\ \A r, q \in permissions' : r.user_id = q.user_id => r = q
            /\ IF user = NoRow
               THEN permissions' = permissions /\ reply'.result = NoPermissions
               ELSE IF stored = NoPermissions
               THEN /\ Cardinality(permissions') = Cardinality(permissions) + 1
                    /\ permissions \subseteq permissions'
                    /\ reply'.result \in permissions'
                    /\ reply'.result.user_id = user.id
                    /\ reply'.result.flags = DefaultPermissions
               ELSE permissions' = permissions /\ reply'.result = stored]_vars

C29_Witness ==
    /\ reply.tag = "get_commander_permissions"
    /\ reply.result \in permissions
    /\ reply.result.flags # DefaultPermissions
    /\ Cardinality(permissions) = 2

\* C30: update_commander_permissions of an existing user with an input that
\* holds a recognized key succeeds, sets the recognized keys of the input and
\* leaves the other flags as they were.
C30_RecognizedKeysApplied ==
    [][\A u \in Users, input \in PermissionInputs :
         /\ update_commander_permissions(u, input)
         /\ GetUser(u) # NoRow
         /\ DOMAIN input \cap PermissionNames # {}
         => LET user_id == GetUser(u).id
                before == GetPermissions(user_id).flags IN
            /\ reply'.result = "True"
            /\ \E r \in permissions' :
                 /\ r.user_id = user_id
                 /\ r.flags = [p \in PermissionNames |->
                                 IF p \in DOMAIN input THEN input[p] ELSE before[p]]]_vars

\* C31: update_commander_permissions returns True or False; when it returns
\* True it appends one permissions_updated Event, and otherwise it appends
\* none and changes no flag of a stored record.
C31_UpdateLogged ==
    [][\A u \in Users, input \in PermissionInputs :
         update_commander_permissions(u, input)
         => /\ reply'.result \in {"True", "False"}
            /\ IF reply'.result = "True"
               THEN /\ Len(events') = Len(events) + 1
                    /\ SubSeq(events', 1, Len(events)) = events
                    /\ events'[Len(events')].action = "permissions_updated"
               ELSE /\ events' = events
                    /\ \A r \in permissions : r \in permissions']_vars

\* C32: check_commander_permission returns false for a user without a
\* permission record, for an id without user and for a name that is no
\* stored capability.
C32_FailClosed ==
    [][\A u \in Users, permission \in PermissionNames \cup {"can_fly"} :
         /\ check_commander_permission(u, permission)
         /\ \/ GetUser(u) = NoRow
            \/ GetPermissions(GetUser(u).id) = NoPermissions
            \/ permission \notin PermissionNames
         => reply'.result = "False"]_vars

C35_MarkAllArrived ==
    \A t \in TaskIds :
        /\ At(t, "finish_state")
        /\ tasks[t].arg = "mark_all_arrived"
        /\ faults = 0
        => /\ \A r \in users : r.status = IN_UNIT
           /\ tasks[t].count = Cardinality(users)

\* C36: no user of a personnel listing is in the admin list, and the number
\* of pages of the listing is that of the users who are not in the admin list.
C36_SoldiersOnly ==
    IsListing(reply)
    => /\ \A i \in 1..Len(reply.users_on_page) : ~IsAdmin(reply.users_on_page[i])
       /\ reply.total_pages =
              PagesFor(Cardinality({r \in users : ~IsAdmin(r.telegram_id)}))

\* C37: every execution by an admin is that of the operation for which the
\* token was typed: the danger_action that is executed is the one the payload
\* held when the token was typed.
C37_TokenForTheOperation ==
    (executed # NoExecution /\ executed.admin) => executed.typed_for = executed.label

\* C38: with two confirm handlers of a user in flight, every execution by an
\* admin is started on a typed token on which no execution was started
\* before: one typed token executes the operation at most once.
C38_DoublePressOnce ==
    (executed # NoExecution /\ executed.admin) => executed.tok

C40_AdminList ==
    /\ [](/\ Len(admin_ids) >= 1
          /\ \A i, j \in 1..Len(admin_ids) : admin_ids[i] = admin_ids[j] => i = j)
    /\ [][(admin_ids' # admin_ids)
             => /\ events' = Append(events, events'[Len(events')])
                /\ events'[Len(events')].action =
                      IF Len(admin_ids') > Len(admin_ids)
                      THEN "admin_added" ELSE "admin_removed"]_vars
    /\ [][(reply'.tag \in {"add_admin", "remove_admin"} /\ reply'.result = "False")
             => (admin_ids' = admin_ids /\ events' = events)]_vars

C40_Witness ==
    /\ Len(admin_ids) = 1
    /\ Len(events) = 2
    /\ events[1].action = "admin_added"
    /\ events[2].action = "admin_removed"
    /\ reply = [user |-> admin_ids[1], tag |-> "remove_admin", result |-> "False"]

=============================================================================
